---- MODULE Spec2Model ----
(***************************************************************************)
(* Model of the airspace viewer's conversion pipeline and cache service:   *)
(*   app/model/openair_types.py     typed model, convert_raw_airspace      *)
(*   app/utils/geojson_converter.py GeoJSON projector                      *)
(*   app/utils/kml_converter.py     KML projector                          *)
(*   app/services/airspace_service.py  AirspaceService (the cache slot)    *)
(***************************************************************************)
EXTENDS Integers, Sequences, FiniteSets, TLC

(***************************************************************************)
(* Bounds of the model.                                                    *)
(***************************************************************************)
\* Longest record sequence a parsed file holds.
MaxRecords == 2
\* Fuel of the recursion in load_airspace_data: a call chain longer than
\* this is reported as not terminating.
MaxDepth == 3

(***************************************************************************)
(* Python values.  Optional[T]: None is the empty tuple, a present value x *)
(* is <<x>>.  Untyped values of raw records carry a type tag t.            *)
(***************************************************************************)
\* A value computed once and used under a name: F(x).
Bind(x, F(_)) == F(x)

None == <<>>
Some(x) == <<x>>
IsNone(o) == Len(o) = 0
Val(o) == o[1]

PyNone == [t |-> "none", v |-> 0]
PyInt(n) == [t |-> "int", v |-> n]
PyStr(s) == [t |-> "str", v |-> s]
PyList(s) == [t |-> "list", v |-> s]
PyDict(f) == [t |-> "dict", v |-> f]
\* A float above 0 and below the spacing of the doubles around a coordinate
\* in degrees (1e-14, say): adding a multiple of it to the coordinate
\* returns the coordinate.
PyEpsilon == [t |-> "epsilon", v |-> 0]
\* dict.get(key, default)
Get(d, key, default) == IF key \in DOMAIN d.v THEN d.v[key] ELSE default
\* Python truthiness of a value: None, 0, "", [] and {} are false.
Truthy(x) ==
    CASE x.t = "none" -> FALSE
      [] x.t = "int" -> x.v # 0
      [] x.t = "epsilon" -> TRUE
      [] x.t = "str" -> x.v # ""
      [] x.t = "list" -> Len(x.v) > 0
      [] x.t = "dict" -> DOMAIN x.v # {}
      [] OTHER -> TRUE

\* The result of a call that may raise: a value, or the exception.
Ok(x) == [ok |-> TRUE, val |-> x, exc |-> ""]
Raise(e) == [ok |-> FALSE, val |-> None, exc |-> e]

(***************************************************************************)
(* app/model/openair_types.py                                              *)
(***************************************************************************)
\* AltitudeType: the enum members by name, and the strings they are built from.
AltitudeTypeValues ==
    [Gnd |-> "GND", FeetAmsl |-> "FEET_AMSL", FeetAgl |-> "FEET_AGL",
     FlightLevel |-> "FLIGHT_LEVEL", Unlimited |-> "UNLIMITED", Other |-> "OTHER"]

\* AltitudeType(s): the member whose value is s, ValueError for any other value.
AltitudeType(s) ==
    IF s.t = "str" /\ s.v \in DOMAIN AltitudeTypeValues
    THEN Ok(AltitudeTypeValues[s.v])
    ELSE Raise("ValueError")

Altitude(type, val) == [type |-> type, val |-> val]

Point(lat, lng) == [type |-> "Point", lat |-> lat, lng |-> lng]

\* PolygonGeometry.__post_init__: segments None becomes [].
PolygonGeometry(type, segments) ==
    [cls |-> "PolygonGeometry", type |-> type,
     segments |-> IF IsNone(segments) THEN <<>> ELSE Val(segments),
     centerpoint |-> PyNone, radius |-> PyNone]

\* CircleGeometry.__post_init__: centerpoint None becomes [0.0, 0.0].
CircleGeometry(type, centerpoint, radius) ==
    [cls |-> "CircleGeometry", type |-> type, segments |-> <<>>,
     centerpoint |-> IF centerpoint.t = "none"
                     THEN PyList(<<PyInt(0), PyInt(0)>>) ELSE centerpoint,
     radius |-> radius]

\* Airspace.__post_init__: bounds None become GND and UNLIMITED.
Airspace(name, class_, lower_bound, upper_bound, geom) ==
    [name |-> name, class_ |-> class_,
     lower_bound |-> IF IsNone(lower_bound)
                     THEN Altitude("GND", PyNone) ELSE Val(lower_bound),
     upper_bound |-> IF IsNone(upper_bound)
                     THEN Altitude("UNLIMITED", PyNone) ELSE Val(upper_bound),
     geom |-> geom]

\* convert_raw_airspace.parse_altitude
parse_altitude(alt_data) ==
    IF alt_data.t = "dict"
    THEN Bind(AltitudeType(Get(alt_data, "type", PyStr("Gnd"))),
              LAMBDA alt_type :
                Altitude(IF alt_type.ok THEN alt_type.val ELSE "OTHER",
                         Get(alt_data, "val", PyNone)))
    ELSE Altitude("GND", PyNone)

\* The Point segments appended by the loop of parse_geometry over a list.
RECURSIVE parse_segments(_)
parse_segments(seg_list) ==
    IF seg_list = <<>> THEN <<>>
    ELSE (IF Head(seg_list).t = "dict"
             /\ Get(Head(seg_list), "type", PyStr("Point")) = PyStr("Point")
          THEN <<Point(Get(Head(seg_list), "lat", PyInt(0)).v,
                       Get(Head(seg_list), "lng", PyInt(0)).v)>>
          ELSE <<>>) \o parse_segments(Tail(seg_list))

\* parse_geometry, polygon branch: iterating segments that are not iterable
\* (None, a number) raises TypeError; an empty list is passed on as None.
parse_polygon(geom_type, seg_list) ==
    IF seg_list.t \in {"none", "int"} THEN Raise("TypeError")
    ELSE Bind(IF seg_list.t = "list" THEN parse_segments(seg_list.v) ELSE <<>>,
              LAMBDA segments :
                Ok(PolygonGeometry(geom_type.v,
                       IF segments # <<>> THEN Some(segments) ELSE None)))

\* convert_raw_airspace.parse_geometry
parse_geometry(geom_data) ==
    IF geom_data.t # "dict" THEN Ok(PolygonGeometry("Polygon", None))
    ELSE IF Get(geom_data, "type", PyStr("Polygon")) = PyStr("Circle")
    THEN Ok(CircleGeometry("Circle",
                Get(geom_data, "centerpoint", PyList(<<PyInt(0), PyInt(0)>>)),
                Get(geom_data, "radius", PyInt(0))))
    ELSE parse_polygon(Get(geom_data, "type", PyStr("Polygon")),
                       Get(geom_data, "segments", PyList(<<>>)))

\* convert_raw_airspace: the typed Airspace, or the exception it raises.
convert_raw_airspace(raw_data) ==
    IF raw_data.t # "dict" THEN Raise("AttributeError")
    ELSE Bind(parse_geometry(Get(raw_data, "geom", PyDict(<<>>))),
              LAMBDA geom :
                IF ~geom.ok THEN Raise(geom.exc)
                ELSE Ok(Airspace(
                        Get(raw_data, "name", ""),
                        Get(raw_data, "class", ""),
                        Some(parse_altitude(Get(raw_data, "lowerBound", PyDict(<<>>)))),
                        Some(parse_altitude(Get(raw_data, "upperBound", PyDict(<<>>)))),
                        geom.val)))

(***************************************************************************)
(* app/utils/units.py and Altitude.to_text                                 *)
(***************************************************************************)
\* Lengths in metres are held exactly, in units of 1/10000 m.
MetersScale == 10000
\* feet_to_meters: float(feet) * 0.3048, in units of 1/10000 m.
feet_to_meters(feet) == feet * 3048
\* nautical_miles_to_meters: nm * 1852, in units of 1/10000 m.
nautical_miles_to_meters(nm) == nm * 1852 * MetersScale
\* int(x) of a length x: truncation toward zero to whole metres.
PyIntOf(x) == IF x >= 0 THEN x \div MetersScale ELSE -((-x) \div MetersScale)

\* float(s) for a string s: the number it spells, ValueError otherwise.
NumericStrings == ("0" :> 0) @@ ("500" :> 500) @@ ("1000" :> 1000)
PyFloat(x) ==
    CASE x.t = "int" -> Ok(x.v)
      [] x.t = "str" -> IF x.v \in DOMAIN NumericStrings
                        THEN Ok(NumericStrings[x.v]) ELSE Raise("ValueError")
      [] OTHER -> Raise("TypeError")
\* str(x) as an f-string renders it.
PyStrOf(x) ==
    CASE x.t = "none" -> "None"
      [] x.t = "int" -> ToString(x.v)
      [] x.t = "str" -> x.v
      [] OTHER -> "?"

\* The metres to_text prints for a feet value (both feet branches).
to_text_meters(val) ==
    IF val.t = "none" \/ (val.t = "str" /\ val.v = "") THEN 0
    ELSE Bind(PyFloat(val),
              LAMBDA feet : IF feet.ok THEN PyIntOf(feet_to_meters(feet.val)) ELSE 0)

\* Altitude.to_text
to_text(altitude) ==
    CASE altitude.type = "GND" -> "GND"
      [] altitude.type = "FEET_AMSL" ->
            ToString(to_text_meters(altitude.val)) \o " m AMSL"
      [] altitude.type = "FEET_AGL" ->
            ToString(to_text_meters(altitude.val)) \o " m AGL"
      [] altitude.type = "FLIGHT_LEVEL" -> "FL " \o PyStrOf(altitude.val)
      [] altitude.type = "UNLIMITED" -> "Unlimited"
      [] altitude.type = "OTHER" -> "?(" \o PyStrOf(altitude.val) \o ")"
      [] OTHER -> IF Truthy(altitude.val) THEN PyStrOf(altitude.val) ELSE "Unknown"

(***************************************************************************)
(* app/utils/airspace_colors.py                                            *)
(***************************************************************************)
AIRSPACE_COLORS ==
    [A |-> "#2196f3", B |-> "#00bcd4", C |-> "#3f51b5", D |-> "#9c27b0",
     E |-> "#e91e63", CTR |-> "#f44336", Restricted |-> "#ffc107",
     Danger |-> "#4caf50", Prohibited |-> "#ff5722",
     GliderProhibited |-> "#ff5722", WaveWindow |-> "#607d8b"]
DEFAULT_COLOR == "#999999"
get_airspace_color(airspace_class) ==
    IF airspace_class \in DOMAIN AIRSPACE_COLORS
    THEN AIRSPACE_COLORS[airspace_class] ELSE DEFAULT_COLOR

(***************************************************************************)
(* app/utils/geojson_converter.py                                          *)
(***************************************************************************)
\* The [lng, lat] pairs of the Point segments, in order; Arc and ArcSegment
\* segments are skipped.
RECURSIVE point_coordinates(_)
point_coordinates(segments) ==
    IF segments = <<>> THEN <<>>
    ELSE (IF Head(segments).type = "Point"
          THEN << <<Head(segments).lng, Head(segments).lat>> >>
          ELSE <<>>) \o point_coordinates(Tail(segments))

\* Vertex i of the 36-point circle approximation.  The trigonometry is kept
\* symbolic: the vertex is named by centre, radius in degrees and index.
circle_vertex(center_lat, center_lng, radius_deg, i) ==
    <<[of |-> "lng", lat |-> center_lat, lng |-> center_lng,
       radius_deg |-> radius_deg, i |-> i],
      [of |-> "lat", lat |-> center_lat, lng |-> center_lng,
       radius_deg |-> radius_deg, i |-> i]>>

\* The centre a circle projector reads from geom.centerpoint: a pair of
\* Optional values, or IndexError for a list shorter than 2.
circle_center(centerpoint) ==
    IF ~Truthy(centerpoint) THEN Ok(<<PyNone, PyNone>>)
    ELSE CASE centerpoint.t = "dict" ->
                Ok(<<Get(centerpoint, "lat", PyNone), Get(centerpoint, "lng", PyNone)>>)
           [] centerpoint.t = "list" ->
                IF Len(centerpoint.v) < 2 THEN Raise("IndexError")
                ELSE Ok(<<centerpoint.v[1], centerpoint.v[2]>>)
           [] OTHER -> Ok(<<PyNone, PyNone>>)

\* The test both circle projectors make before approximating: a numeric
\* centre and radius > 0; comparing a non-number with 0 raises TypeError.
circle_valid(center, radius) ==
    IF center[1].t = "int" /\ center[2].t = "int"
    THEN CASE radius.t = "int" -> Ok(radius.v > 0)
           [] radius.t = "epsilon" -> Ok(TRUE)
           [] OTHER -> Raise("TypeError")
    ELSE Ok(FALSE)

\* The 36 vertices, 10 degrees apart, of a valid circle.  The float sums
\* center + radius_deg * cos(angle) of a radius below the spacing of the
\* doubles return the centre, for every angle.
circle_ring(center, radius) ==
    IF radius.t = "epsilon"
    THEN [i \in 1..36 |->
            circle_vertex(center[1].v, center[2].v, [num |-> 0, den |-> 111320], 0)]
    ELSE LET radius_deg == [num |-> nautical_miles_to_meters(radius.v), den |-> 111320]
         IN  [i \in 1..36 |-> circle_vertex(center[1].v, center[2].v, radius_deg, i - 1)]

\* Mutant of polygon_feature: the ring is emitted as given, never closed.
polygon_feature_open(coordinates, feature) ==
    IF Len(coordinates) > 2
    THEN [feature EXCEPT !.geometry = Some([type |-> "Polygon",
                                            coordinates |-> <<coordinates>>])]
    ELSE IF Len(coordinates) = 2
    THEN [feature EXCEPT
            !.properties.geometryType = Some("line"),
            !.properties.color = "#FF0000",
            !.properties.description = @ \o " - Line Obstacle",
            !.geometry = Some([type |-> "LineString",
                               coordinates |-> coordinates])]
    ELSE [feature EXCEPT !.geometry = None]

\* Mutant of polygon_feature: two points give a LineString with the
\* properties of any other feature.
polygon_feature_plain_line(coordinates, feature) ==
    IF Len(coordinates) > 2
    THEN [feature EXCEPT !.geometry = Some(
            [type |-> "Polygon",
             coordinates |-> << IF coordinates[1] # coordinates[Len(coordinates)]
                                THEN Append(coordinates, coordinates[1])
                                ELSE coordinates >>])]
    ELSE IF Len(coordinates) = 2
    THEN [feature EXCEPT !.geometry = Some([type |-> "LineString",
                                            coordinates |-> coordinates])]
    ELSE [feature EXCEPT !.geometry = None]

\* _process_polygon_geometry, after the coordinates are extracted: the
\* feature with its geometry and the properties overridden for a line.
polygon_feature(coordinates, feature) ==
    IF Len(coordinates) > 2
    THEN [feature EXCEPT !.geometry = Some(
            [type |-> "Polygon",
             coordinates |-> << IF coordinates[1] # coordinates[Len(coordinates)]
                                THEN Append(coordinates, coordinates[1])
                                ELSE coordinates >>])]
    ELSE IF Len(coordinates) = 2
    THEN [feature EXCEPT
            !.properties.geometryType = Some("line"),
            !.properties.color = "#FF0000",
            !.properties.description = @ \o " - Line Obstacle",
            !.geometry = Some([type |-> "LineString",
                               coordinates |-> coordinates])]
    ELSE [feature EXCEPT !.geometry = None]

\* _process_polygon_geometry
process_polygon_geometry(geom, feature) ==
    polygon_feature(point_coordinates(geom.segments), feature)

\* The circles both projectors accept, by the centre read and its validity:
\* the 36 vertices of the ring, None for an invalid circle, or the exception.
circle_coordinates(geom) ==
    Bind(circle_center(geom.centerpoint), LAMBDA center :
      IF ~center.ok THEN Raise(center.exc)
      ELSE Bind(circle_valid(center.val, geom.radius), LAMBDA valid :
             IF ~valid.ok THEN Raise(valid.exc)
             ELSE IF valid.val THEN Ok(Some(circle_ring(center.val, geom.radius)))
             ELSE Ok(None)))

\* _process_circle_geometry: the geometry (None for an invalid circle), or
\* the exception raised.
process_circle_geometry(geom) ==
    Bind(circle_coordinates(geom), LAMBDA ring :
      IF ~ring.ok THEN Raise(ring.exc)
      ELSE IF IsNone(ring.val) THEN Ok(None)
      ELSE Ok(Some([type |-> "Polygon",
                    coordinates |-> <<Append(Val(ring.val), Val(ring.val)[1])>>])))

\* The feature _create_geojson_feature builds before the geometry is set.
feature_properties(airspace) ==
    [type |-> "Feature",
     properties |->
        [name |-> airspace.name,
         class |-> airspace.class_,
         lowerBound |-> to_text(airspace.lower_bound),
         upperBound |-> to_text(airspace.upper_bound),
         description |-> airspace.name \o " (" \o airspace.class_ \o ")",
         color |-> get_airspace_color(airspace.class_),
         geometryType |-> None],
     geometry |-> None]

\* _create_geojson_feature: the feature, or the exception raised.
create_geojson_feature(airspace) ==
    Bind(feature_properties(airspace), LAMBDA feature :
      CASE airspace.geom.cls = "PolygonGeometry" ->
             Ok(process_polygon_geometry(airspace.geom, feature))
        [] airspace.geom.cls = "CircleGeometry" ->
             Bind(process_circle_geometry(airspace.geom), LAMBDA g :
               IF g.ok THEN Ok([feature EXCEPT !.geometry = g.val])
               ELSE Raise(g.exc))
        [] OTHER -> Ok(feature))

\* Mutant of geojson_features: the first airspace whose conversion raises
\* ends the loop.
RECURSIVE geojson_features_abort(_)
geojson_features_abort(airspaces) ==
    IF airspaces = <<>> THEN <<>>
    ELSE IF ~create_geojson_feature(Head(airspaces)).ok THEN <<>>
    ELSE (IF ~IsNone(create_geojson_feature(Head(airspaces)).val.geometry)
          THEN <<create_geojson_feature(Head(airspaces)).val>> ELSE <<>>)
         \o geojson_features_abort(Tail(airspaces))

\* Mutant of geojson_features: each feature is put in front of the others.
RECURSIVE geojson_features_reversed(_)
geojson_features_reversed(airspaces) ==
    IF airspaces = <<>> THEN <<>>
    ELSE geojson_features_reversed(Tail(airspaces))
         \o (IF create_geojson_feature(Head(airspaces)).ok
                /\ ~IsNone(create_geojson_feature(Head(airspaces)).val.geometry)
             THEN <<create_geojson_feature(Head(airspaces)).val>> ELSE <<>>)

\* convert_airspace_to_geojson: the loop appends the feature of every
\* airspace that yields a geometry and skips one whose conversion raises.
RECURSIVE geojson_features(_)
geojson_features(airspaces) ==
    IF airspaces = <<>> THEN <<>>
    ELSE Bind(create_geojson_feature(Head(airspaces)), LAMBDA feature :
           IF feature.ok /\ ~IsNone(feature.val.geometry)
           THEN <<feature.val>> ELSE <<>>)
         \o geojson_features(Tail(airspaces))

convert_airspace_to_geojson(airspaces) ==
    [type |-> "FeatureCollection", features |-> geojson_features(airspaces)]

(***************************************************************************)
(* app/utils/kml_converter.py                                              *)
(***************************************************************************)
\* str.lstrip("#")
RECURSIVE lstrip_hash(_)
lstrip_hash(h) ==
    IF Len(h) > 0 /\ SubSeq(h, 1, 1) = "#" THEN lstrip_hash(SubSeq(h, 2, Len(h)))
    ELSE h

\* _hex_to_kml_color, after the leading # is stripped.
hex_digits_to_kml(hex) ==
    IF Len(hex) = 6
    THEN "ff" \o SubSeq(hex, 5, 6) \o SubSeq(hex, 3, 4) \o SubSeq(hex, 1, 2)
    ELSE IF Len(hex) = 8
    THEN SubSeq(hex, 1, 2) \o SubSeq(hex, 7, 8) \o SubSeq(hex, 5, 6)
            \o SubSeq(hex, 3, 4)
    ELSE "ff0000ff"

\* _hex_to_kml_color: #RRGGBB or #AARRGGBB to aabbggrr.
hex_to_kml_color(hex_color) == hex_digits_to_kml(lstrip_hash(hex_color))

\* _to_float_safe: None and anything float() rejects become 0.0.
to_float_safe(val) ==
    IF val.t = "none" THEN 0
    ELSE Bind(PyFloat(val), LAMBDA f : IF f.ok THEN f.val ELSE 0)

\* VERY_HIGH_ALT = 60000.0 m, in units of 1/10000 m.
VERY_HIGH_ALT == 60000 * MetersScale

\* _altitude_to_kml: <<altitudeMode, metres>> of a typed Altitude.
altitude_to_kml(altitude) ==
    CASE altitude.type = "GND" -> <<"relativeToGround", 0>>
      [] altitude.type = "FEET_AMSL" ->
            <<"absolute", feet_to_meters(to_float_safe(altitude.val))>>
      [] altitude.type = "FEET_AGL" ->
            <<"relativeToGround", feet_to_meters(to_float_safe(altitude.val))>>
      [] altitude.type = "FLIGHT_LEVEL" ->
            <<"absolute", feet_to_meters(to_float_safe(altitude.val) * 100)>>
      [] altitude.type = "UNLIMITED" -> <<"absolute", VERY_HIGH_ALT>>
      [] OTHER -> <<"absolute", 0>>

\* Mutant of is_ground_lower: any bound whose value is 0 or less counts.
is_ground_lower_any_zero(altitude) ==
    CASE altitude.type = "GND" -> TRUE
      [] altitude.type \in {"FEET_AGL", "FEET_AMSL", "FLIGHT_LEVEL"} ->
            to_float_safe(altitude.val) <= 0
      [] OTHER -> FALSE

\* _is_ground_lower of a typed Altitude.
is_ground_lower(altitude) ==
    CASE altitude.type = "GND" -> TRUE
      [] altitude.type = "FEET_AGL" -> to_float_safe(altitude.val) <= 0
      [] OTHER -> FALSE

\* _ring_with_altitude
ring_with_altitude(ring2d, altitude_m) ==
    [i \in 1..Len(ring2d) |-> <<ring2d[i][1], ring2d[i][2], altitude_m>>]

\* Mutant of iter_edges: the edge that closes the ring is left out.
iter_edges_open(ring2d) ==
    IF Len(ring2d) < 3 THEN <<>>
    ELSE [i \in 1..(Len(ring2d) - 2) |-> <<ring2d[i], ring2d[i + 1]>>]

\* _iter_edges: the consecutive vertex pairs of the ring.
iter_edges(ring2d) ==
    IF Len(ring2d) < 2 THEN <<>>
    ELSE [i \in 1..(Len(ring2d) - 1) |-> <<ring2d[i], ring2d[i + 1]>>]

\* A polygon of a MultiGeometry.
kml_face(outerboundaryis, altitudemode, extrude, kml_color) ==
    [outerboundaryis |-> outerboundaryis, altitudemode |-> altitudemode,
     extrude |-> extrude, color |-> kml_color]

\* The wall quad built for one edge: closed, at the top face's altitude mode.
wall_polygon(edge, lower_m, upper_m, upper_mode, kml_color) ==
    kml_face(<< <<edge[1][1], edge[1][2], lower_m>>, <<edge[2][1], edge[2][2], lower_m>>,
                <<edge[2][1], edge[2][2], upper_m>>, <<edge[1][1], edge[1][2], upper_m>>,
                <<edge[1][1], edge[1][2], lower_m>> >>,
             upper_mode, Some(0), kml_color)

\* The single extruded polygon of a lower bound on the ground.
extruded_polygon(ring2d, name, description, kml_color, upper) ==
    [kind |-> "Polygon", name |-> name, description |-> description,
     outerboundaryis |-> ring_with_altitude(ring2d, upper[2]),
     extrude |-> Some(1), altitudemode |-> upper[1], color |-> kml_color]

\* The MultiGeometry of an elevated lower bound: top face, bottom face and
\* one wall per edge.  faces_extrude is the extrude the two faces are given.
multigeometry_solid(ring2d, name, description, kml_color, faces_extrude, lower, upper, edges) ==
    [kind |-> "MultiGeometry", name |-> name, description |-> description,
     polygons |->
        << kml_face(ring_with_altitude(ring2d, upper[2]), upper[1],
                    faces_extrude, kml_color),
           kml_face(ring_with_altitude(ring2d, lower[2]), lower[1],
                    faces_extrude, kml_color) >>
        \o [i \in 1..Len(edges) |->
              wall_polygon(edges[i], lower[2], upper[2], upper[1], kml_color)]]

\* The volume both projectors emit for a closed ring, by the strategy the
\* lower bound decides.
kml_volume(airspace, ring2d, name, description, color, faces_extrude) ==
    IF is_ground_lower(airspace.lower_bound)
    THEN extruded_polygon(ring2d, name, description, hex_to_kml_color(color),
                          altitude_to_kml(airspace.upper_bound))
    ELSE multigeometry_solid(ring2d, name, description, hex_to_kml_color(color),
                             faces_extrude,
                             altitude_to_kml(airspace.lower_bound),
                             altitude_to_kml(airspace.upper_bound),
                             iter_edges(ring2d))

\* _add_kml_polygon_3d, after the ring is extracted and closed.
kml_polygon_of_ring(airspace, ring2d, name, description, color) ==
    IF Len(ring2d) = 2
    THEN << [kind |-> "LineString", name |-> name, description |-> description,
             coords |-> ring2d, color |-> hex_to_kml_color("#FF0000")] >>
    ELSE << kml_volume(airspace, ring2d, name, description, color, Some(0)) >>

\* _add_kml_polygon_3d, after the points are extracted.
kml_polygon_of_points(airspace, points, name, description, color) ==
    IF Len(points) < 2 THEN <<>>
    ELSE kml_polygon_of_ring(airspace,
             IF Len(points) >= 3 /\ points[1] # points[Len(points)]
             THEN Append(points, points[1]) ELSE points,
             name, description, color)

\* _add_kml_polygon_3d: the features added to the document (none or one).
add_kml_polygon_3d(airspace, geom, name, description, color) ==
    kml_polygon_of_points(airspace, point_coordinates(geom.segments),
                          name, description, color)

\* _add_kml_circle_3d: the features added, or the exception raised.
add_kml_circle_3d(airspace, geom, name, description, color) ==
    Bind(circle_coordinates(geom), LAMBDA ring :
      IF ~ring.ok THEN Raise(ring.exc)
      ELSE IF IsNone(ring.val) THEN Ok(<<>>)
      ELSE Bind(Val(ring.val), LAMBDA c :
             Ok(<< kml_volume(airspace,
                              IF c[1] # c[Len(c)] THEN Append(c, c[1]) ELSE c,
                              name, description, color, None) >>)))

\* _add_kml_feature, after the description is built.
add_described_feature(airspace, name, description, color) ==
    CASE airspace.geom.cls = "PolygonGeometry" ->
           Ok(add_kml_polygon_3d(airspace, airspace.geom, name, description, color))
      [] airspace.geom.cls = "CircleGeometry" ->
           add_kml_circle_3d(airspace, airspace.geom, name, description, color)
      [] OTHER -> Ok(<<>>)

\* _add_kml_feature: the features one airspace adds, or the exception.
add_kml_feature(airspace) ==
    add_described_feature(airspace, airspace.name,
        airspace.name \o " (" \o airspace.class_ \o ")\nLower: "
           \o to_text(airspace.lower_bound) \o "\nUpper: "
           \o to_text(airspace.upper_bound),
        get_airspace_color(airspace.class_))

\* The loop of convert_airspace_to_kml: an airspace whose conversion raises
\* adds nothing.
RECURSIVE kml_features(_)
kml_features(airspaces) ==
    IF airspaces = <<>> THEN <<>>
    ELSE Bind(add_kml_feature(Head(airspaces)),
              LAMBDA added : IF added.ok THEN added.val ELSE <<>>)
         \o kml_features(Tail(airspaces))

\* convert_airspace_to_kml: the document, by the features it holds.
convert_airspace_to_kml(airspaces) ==
    [document |-> "kml", features |-> kml_features(airspaces)]

(***************************************************************************)
(* The file system and the external parser (openair.parse_file).           *)
(***************************************************************************)
\* get_default_airspace_path()
get_default_airspace_path == "app/examples/Switzerland.txt"
OtherPath == "upload/other.txt"
Paths == {get_default_airspace_path, OtherPath}
\* The names an upload is displayed under; one of them spells a path.
DisplayNames == {"custom.txt", OtherPath}

\* The raw records the parser returns in this model: a polygon of three
\* points, a polygon of a single point, and a polygon whose segments are None.
RawPoint(lat, lng) ==
    PyDict([type |-> PyStr("Point"), lat |-> PyInt(lat), lng |-> PyInt(lng)])
RawTMA ==
    PyDict([name |-> "TMA", class |-> "C",
            lowerBound |-> PyDict([type |-> PyStr("FeetAmsl"), val |-> PyInt(500)]),
            upperBound |-> PyDict([type |-> PyStr("FeetAmsl"), val |-> PyInt(1000)]),
            geom |-> PyDict([type |-> PyStr("Polygon"),
                             segments |-> PyList(<<RawPoint(46, 7), RawPoint(46, 8),
                                                   RawPoint(47, 8)>>)])])
RawSpot ==
    PyDict([name |-> "SPOT", class |-> "D",
            lowerBound |-> PyDict([type |-> PyStr("Gnd")]),
            upperBound |-> PyDict([type |-> PyStr("FlightLevel"), val |-> PyInt(100)]),
            geom |-> PyDict([type |-> PyStr("Polygon"),
                             segments |-> PyList(<<RawPoint(46, 9)>>)])])
RawBroken ==
    PyDict([name |-> "BROKEN", class |-> "C",
            geom |-> PyDict([type |-> PyStr("Polygon"), segments |-> PyNone])])
RawRecords == {RawTMA, RawSpot, RawBroken}

\* Sequences of raw records of length at most n.
RECURSIVE RecordSeqs(_)
RecordSeqs(n) ==
    IF n = 0 THEN {<<>>}
    ELSE RecordSeqs(n - 1)
         \cup {Append(q, r) : q \in {x \in RecordSeqs(n - 1) : Len(x) = n - 1},
                              r \in RawRecords}

\* A file: missing, one the parser rejects, or one it parses into records.
MissingFile == [state |-> "missing", records |-> <<>>]
MalformedFile == [state |-> "malformed", records |-> <<>>]
ParsedFile(records) == [state |-> "ok", records |-> records]
FileContents ==
    {MissingFile, MalformedFile} \cup {ParsedFile(q) : q \in RecordSeqs(MaxRecords)}
\* The shipped default file: missing, corrupted, empty or as shipped.
DefaultContents ==
    {MissingFile, MalformedFile, ParsedFile(<<>>), ParsedFile(<<RawTMA, RawSpot>>)}
ContentsOf(path) ==
    IF path = get_default_airspace_path THEN DefaultContents ELSE FileContents

\* os.path.exists
exists(fs, filepath) == fs[filepath].state # "missing"

\* openair.parse_file: the raw records, or the exception raised.
parse_file(fs, filepath) ==
    CASE fs[filepath].state = "missing" -> Raise("FileNotFoundError")
      [] fs[filepath].state = "malformed" -> Raise("ParseError")
      [] OTHER -> Ok(fs[filepath].records)

(***************************************************************************)
(* app/services/airspace_service.py                                        *)
(***************************************************************************)
\* [convert_raw_airspace(raw_data) for raw_data in raw_airspaces]: the list,
\* or the exception of the first record whose conversion raises.
RECURSIVE convert_all(_)
convert_all(raw_airspaces) ==
    IF raw_airspaces = <<>> THEN Ok(<<>>)
    ELSE Bind(convert_raw_airspace(Head(raw_airspaces)), LAMBDA first :
           IF ~first.ok THEN Raise(first.exc)
           ELSE Bind(convert_all(Tail(raw_airspaces)), LAMBDA rest :
                  IF rest.ok THEN Ok(<<first.val>> \o rest.val)
                  ELSE Raise(rest.exc)))

\* The three fields of the service: the cache slot.
Slot(airspaces, geojson, filename) ==
    [cached_airspaces |-> airspaces, cached_geojson |-> geojson,
     current_filename |-> filename]
\* AirspaceService.__init__
EmptySlot == Slot(None, None, None)
EmptyFeatureCollection == [type |-> "FeatureCollection", features |-> <<>>]

\* What a method call leaves: the slot, the value returned, the exception
\* that reached the caller, how often the parser and load_airspace_data ran,
\* and whether the call came back.
Outcome(slot, ret, raised, parser_calls, load_calls, returned) ==
    [slot |-> slot, ret |-> ret, raised |-> raised, parser_calls |-> parser_calls,
     load_calls |-> load_calls, returned |-> returned]

\* parse_file and the conversion of every record: the body of both try blocks.
parse_and_convert(fs, filepath) ==
    Bind(parse_file(fs, filepath), LAMBDA raw_airspaces :
      IF raw_airspaces.ok THEN convert_all(raw_airspaces.val)
      ELSE Raise(raw_airspaces.exc))

\* Mutant of loaded_slot: the GeoJSON of the loaded airspaces is not stored.
loaded_slot_without_geojson(airspaces, filename) ==
    Slot(Some(airspaces), None, Some(filename))

\* Mutant of loaded_slot: the GeoJSON stored is that of no airspaces.
loaded_slot_stale_geojson(airspaces, filename) ==
    Slot(Some(airspaces), Some(EmptyFeatureCollection), Some(filename))

\* The slot both loaders store after a successful parse and conversion.
loaded_slot(airspaces, filename) ==
    Slot(Some(airspaces), Some(convert_airspace_to_geojson(airspaces)),
         Some(filename))

\* Mutant of must_reload: whatever is cached is served for every path.
must_reload_only_when_empty(self, filepath) == IsNone(self.cached_airspaces)

\* Mutant of must_reload: the memo test is dropped, every call reloads.
must_reload_always(self, filepath) == TRUE

\* load_airspace_data, line 62-63: nothing cached, or cached for another path.
must_reload(self, filepath) ==
    IsNone(self.cached_airspaces) \/ self.current_filename # Some(filepath)

\* Mutant of load_failure_slot: a failed load leaves the cache as it was.
load_failure_keeps(self) == self

\* load_airspace_data, except branch: the slot after a failed load.
load_failure_slot(self) ==
    Slot(Some(<<>>), Some(EmptyFeatureCollection), None)

\* Mutant of retries_default: every missing file is retried with the default.
retries_always(filepath) == TRUE

\* load_airspace_data, line 116: a missing file other than the default is
\* retried with the default path.
retries_default(filepath) == filepath # get_default_airspace_path

\* load_airspace_data, line 119: the cached pair is returned.
return_cached(slot, parser_calls) ==
    Outcome(slot, <<slot.cached_airspaces, slot.cached_geojson>>, None,
            parser_calls, 1, TRUE)

\* load_airspace_data, the try block with its except branch.
reload(self, fs, filepath) ==
    Bind(parse_and_convert(fs, filepath), LAMBDA typed :
      return_cached(IF typed.ok THEN loaded_slot(typed.val, filepath)
                    ELSE load_failure_slot(self), 1))

\* load_airspace_data(filepath) for a resolved path, with the depth left for
\* its recursion; a call chain that uses it up has not returned.
RECURSIVE load_path(_, _, _, _)
load_path(self, fs, filepath, fuel) ==
    IF fuel = 0 THEN Outcome(self, <<None, None>>, None, 0, 0, FALSE)
    ELSE IF must_reload(self, filepath) /\ exists(fs, filepath)
    THEN reload(self, fs, filepath)
    ELSE IF ~exists(fs, filepath) /\ retries_default(filepath)
    THEN Bind(load_path(self, fs, get_default_airspace_path, fuel - 1),
              LAMBDA r : [r EXCEPT !.load_calls = @ + 1])
    ELSE return_cached(self, 0)

\* load_airspace_data(filepath): None stands for the default path.
load_airspace_data(self, fs, filepath) ==
    load_path(self, fs,
              IF IsNone(filepath) THEN get_default_airspace_path ELSE Val(filepath),
              MaxDepth)

\* Mutant of upload_failure_slot: a failed upload clears the cache as a
\* failed load does.
upload_failure_clears(self) == Slot(Some(<<>>), Some(EmptyFeatureCollection), None)

\* load_from_uploaded_file, except branch: the slot after a failed upload.
upload_failure_slot(self) == self

\* load_from_uploaded_file(filepath, original_filename)
load_from_uploaded_file(self, fs, filepath, original_filename) ==
    Bind(parse_and_convert(fs, filepath), LAMBDA typed :
      IF typed.ok
      THEN Outcome(loaded_slot(typed.val, original_filename),
                   <<TRUE, None>>, None, 1, 0, TRUE)
      ELSE Outcome(upload_failure_slot(self), <<FALSE, Some(typed.exc)>>,
                   None, 1, 0, TRUE))

\* Mutant of reset_to_default: the file name is not cleared.
reset_keeps_filename(self) ==
    Outcome(Slot(None, None, self.current_filename), None, None, 0, 0, TRUE)

\* reset_to_default()
reset_to_default(self) == Outcome(EmptySlot, None, None, 0, 0, TRUE)

\* Mutant of get_cached_data: the default file is loaded whatever is cached.
get_cached_data_always_loads(self, fs) == load_airspace_data(self, fs, None)

\* get_cached_data()
get_cached_data(self, fs) ==
    IF ~IsNone(self.cached_airspaces) /\ ~IsNone(self.cached_geojson)
    THEN Outcome(self, <<self.cached_airspaces, self.cached_geojson>>,
                 None, 0, 0, TRUE)
    ELSE load_airspace_data(self, fs, None)

\* `not airspaces` of an Optional list: None or empty.
not_airspaces(airspaces) == IsNone(airspaces) \/ Val(airspaces) = <<>>

\* Mutant of export_result: no airspaces give an empty document, not an error.
export_result_empty_document(done, parser_calls, load_calls) ==
    Outcome(done.slot,
            Some(convert_airspace_to_kml(IF IsNone(done.ret[1]) THEN <<>>
                                         ELSE Val(done.ret[1]))),
            None, parser_calls, load_calls, done.returned)

\* export_to_kml, line 217-220: the error or the document, after the calls
\* made so far.  The value returned is the document, None when it raises.
export_result(done, parser_calls, load_calls) ==
    IF not_airspaces(done.ret[1])
    THEN Outcome(done.slot, None,
                 Some("ValueError: No airspaces loaded to export."),
                 parser_calls, load_calls, done.returned)
    ELSE Outcome(done.slot, Some(convert_airspace_to_kml(Val(done.ret[1]))), None,
                 parser_calls, load_calls, done.returned)

\* Mutant of export_cached: what is cached is exported, nothing is loaded.
export_cached_no_reload(cached, fs) ==
    export_result(cached, cached.parser_calls, cached.load_calls)

\* export_to_kml, line 215-216: empty or absent airspaces are loaded again.
export_cached(cached, fs) ==
    IF ~not_airspaces(cached.ret[1])
    THEN export_result(cached, cached.parser_calls, cached.load_calls)
    ELSE Bind(load_airspace_data(cached.slot, fs, None), LAMBDA loaded :
           export_result(loaded, cached.parser_calls + loaded.parser_calls,
                         cached.load_calls + loaded.load_calls))

\* export_to_kml(), called without a file path as the route calls it.
export_to_kml(self, fs) == export_cached(get_cached_data(self, fs), fs)

\* The class counts of get_airspace_stats: class -> number of airspaces.
class_counts(airspaces) ==
    [c \in {airspaces[i].class_ : i \in DOMAIN airspaces} |->
        Cardinality({i \in DOMAIN airspaces : airspaces[i].class_ = c})]

\* get_airspace_stats, after get_cached_data.
stats_of(cached) ==
    [cached EXCEPT !.ret =
        IF IsNone(cached.ret[1])
        THEN [total_airspaces |-> 0, classes |-> <<>>]
        ELSE [total_airspaces |-> Len(Val(cached.ret[1])),
              classes |-> class_counts(Val(cached.ret[1]))]]

\* get_airspace_stats()
get_airspace_stats(self, fs) == stats_of(get_cached_data(self, fs))

(***************************************************************************)
(* The state: the file system, the service's slot, and the last call made  *)
(* on the service with the slot it found and what it left.                 *)
(***************************************************************************)
VARIABLES files, cached_airspaces, cached_geojson, current_filename, call

vars == <<files, cached_airspaces, cached_geojson, current_filename, call>>

\* The slot the service holds.
self == Slot(cached_airspaces, cached_geojson, current_filename)

\* A call's record: the method, its arguments, the slot before, the outcome.
Call(op, filepath, original_filename, pre, out) ==
    [op |-> op, filepath |-> filepath, original_filename |-> original_filename,
     pre |-> pre, ret |-> out.ret, raised |-> out.raised,
     parser_calls |-> out.parser_calls, load_calls |-> out.load_calls,
     returned |-> out.returned]

\* The service takes the outcome's slot and the call is recorded.
Finish(op, filepath, original_filename, out) ==
    /\ cached_airspaces' = out.slot.cached_airspaces
    /\ cached_geojson' = out.slot.cached_geojson
    /\ current_filename' = out.slot.current_filename
    /\ call' = Call(op, filepath, original_filename, self, out)
    /\ UNCHANGED files

Init ==
    /\ files \in [Paths -> FileContents]
    /\ \A p \in Paths : files[p] \in ContentsOf(p)
    /\ cached_airspaces = None
    /\ cached_geojson = None
    /\ current_filename = None
    /\ call = Call("init", None, None, EmptySlot,
                   Outcome(EmptySlot, None, None, 0, 0, TRUE))

\* The environment replaces, creates or deletes a file.
WriteFile ==
    \E p \in Paths : \E c \in ContentsOf(p) :
        /\ files[p] # c
        /\ files' = [files EXCEPT ![p] = c]
        /\ call' = Call("write", None, None, self,
                        Outcome(self, None, None, 0, 0, TRUE))
        /\ UNCHANGED <<cached_airspaces, cached_geojson, current_filename>>

Load ==
    \E filepath \in {None} \cup {Some(p) : p \in Paths} :
        Finish("load_airspace_data", filepath, None,
               load_airspace_data(self, files, filepath))

LoadFromUpload ==
    \E filepath \in Paths : \E original_filename \in DisplayNames :
        Finish("load_from_uploaded_file", Some(filepath), Some(original_filename),
               load_from_uploaded_file(self, files, filepath, original_filename))

Reset == Finish("reset_to_default", None, None, reset_to_default(self))

GetCachedData == Finish("get_cached_data", None, None, get_cached_data(self, files))

ExportToKml == Finish("export_to_kml", None, None, export_to_kml(self, files))

GetAirspaceStats ==
    Finish("get_airspace_stats", None, None, get_airspace_stats(self, files))

Next ==
    \/ WriteFile
    \/ Load
    \/ LoadFromUpload
    \/ Reset
    \/ GetCachedData
    \/ ExportToKml
    \/ GetAirspaceStats

Spec == Init /\ [][Next]_vars

(***************************************************************************)
(* The converters on their own.  A second specification draws one input    *)
(* (a list of typed airspaces, an altitude, a colour or a raw record) and  *)
(* applies the functions that take it; `call` records the function, its    *)
(* argument and what it returned.  The service's slot and files stay idle. *)
(***************************************************************************)
\* Longest list of airspaces handed to a projector.
MaxAirspaces == 3

\* Raw records as the parser returns them.
RawAlt(type, val) == PyDict([type |-> PyStr(type), val |-> val])
RawPolygon(name, class, lower, upper, points) ==
    PyDict([name |-> name, class |-> class, lowerBound |-> lower, upperBound |-> upper,
            geom |-> PyDict([type |-> PyStr("Polygon"), segments |-> PyList(points)])])
RawCircle(name, class, lower, upper, centerpoint, radius) ==
    PyDict([name |-> name, class |-> class, lowerBound |-> lower, upperBound |-> upper,
            geom |-> PyDict([type |-> PyStr("Circle"), centerpoint |-> centerpoint,
                             radius |-> radius])])

\* A two-point polygon: a line obstacle.
RawLine ==
    RawPolygon("CABLE", "D", RawAlt("Gnd", PyNone), RawAlt("FeetAgl", PyInt(500)),
               <<RawPoint(46, 7), RawPoint(46, 8)>>)
\* A polygon given closed, standing on the ground.
RawCTR ==
    RawPolygon("CTR", "CTR", RawAlt("FeetAgl", PyInt(0)), RawAlt("FlightLevel", PyInt(100)),
               <<RawPoint(46, 7), RawPoint(46, 8), RawPoint(47, 8), RawPoint(46, 7)>>)
\* Valid circles, on the ground and floating.
RawHeli ==
    RawCircle("HELI", "Restricted", RawAlt("Gnd", PyNone), RawAlt("FeetAmsl", PyInt(1000)),
              PyList(<<PyInt(47), PyInt(8)>>), PyInt(5))
RawPara ==
    RawCircle("PARA", "Danger", RawAlt("FlightLevel", PyInt(50)), RawAlt("Unlimited", PyNone),
              PyList(<<PyInt(46), PyInt(7)>>), PyInt(2))
\* Circles whose projection raises: a one-entry centre, a radius of text.
RawShortCentre ==
    RawCircle("SHORT", "A", RawAlt("Gnd", PyNone), RawAlt("FeetAmsl", PyInt(1000)),
              PyList(<<PyInt(47)>>), PyInt(5))
RawTextRadius ==
    RawCircle("TEXT", "B", RawAlt("Gnd", PyNone), RawAlt("FeetAmsl", PyInt(1000)),
              PyList(<<PyInt(47), PyInt(8)>>), PyStr("5"))
\* Invalid circles: radius 0, a centre without longitude.
RawZeroRadius ==
    RawCircle("ZERO", "E", RawAlt("Gnd", PyNone), RawAlt("FeetAmsl", PyInt(1000)),
              PyList(<<PyInt(47), PyInt(8)>>), PyInt(0))
RawNoCentre ==
    RawCircle("NOWHERE", "E", RawAlt("Gnd", PyNone), RawAlt("FeetAmsl", PyInt(1000)),
              PyDict([lat |-> PyInt(47)]), PyInt(5))

\* A circle whose radius is lost in the float sums, and a polygon between a
\* height above ground and an altitude above sea level.
RawSpeck ==
    RawCircle("SPECK", "Q", RawAlt("FeetAmsl", PyInt(500)), RawAlt("FeetAmsl", PyInt(1000)),
              PyList(<<PyInt(47), PyInt(8)>>), PyEpsilon)
RawMixed ==
    RawPolygon("MIXED", "R", RawAlt("FeetAgl", PyInt(500)), RawAlt("FeetAmsl", PyInt(1000)),
               <<RawPoint(46, 7), RawPoint(46, 8), RawPoint(47, 8)>>)
SampleRecords ==
    {RawTMA, RawSpot, RawLine, RawCTR, RawHeli, RawPara, RawShortCentre,
     RawTextRadius, RawZeroRadius, RawNoCentre}

\* The typed airspaces a projector is handed: those convert_raw_airspace built.
SampleAirspaces ==
    {convert_raw_airspace(r).val : r \in {x \in SampleRecords : convert_raw_airspace(x).ok}}

\* Airspaces handed to a projector alone; the last has a geometry that is
\* neither a polygon nor a circle.
ExtraAirspaces ==
    {convert_raw_airspace(RawSpeck).val, convert_raw_airspace(RawMixed).val,
     Airspace("ODD", "C", None, None,
              [cls |-> "Arc", type |-> "Arc", segments |-> <<>>,
               centerpoint |-> PyNone, radius |-> PyNone])}

\* Lists of typed airspaces of length at most n.
RECURSIVE AirspaceSeqs(_)
AirspaceSeqs(n) ==
    IF n = 0 THEN {<<>>}
    ELSE AirspaceSeqs(n - 1)
         \cup {Append(q, a) : q \in {x \in AirspaceSeqs(n - 1) : Len(x) = n - 1},
                              a \in SampleAirspaces}

\* Altitude values of a raw record: absent, numbers, numeric and other text.
AltitudeVals ==
    {PyNone, PyInt(0), PyInt(1000), PyInt(-100), PyStr("500"), PyStr("abc")}
SampleAltitudes ==
    {Altitude(AltitudeTypeValues[t], v) : t \in DOMAIN AltitudeTypeValues, v \in AltitudeVals}

\* Colours handed to _hex_to_kml_color.
SampleColors == {"#2196f3", "#80FF0000", "#FF0000", "#999", "", "#12345", "#GGHHII"}

\* Raw lowerBound entries: known and unknown type strings, a type that is
\* not a string, no type key, and an entry that is not a dict.
RawAltitudes ==
    {RawAlt("Gnd", PyNone), RawAlt("FeetAmsl", PyInt(1000)), RawAlt("FeetAgl", PyInt(500)),
     RawAlt("FlightLevel", PyInt(75)), RawAlt("Unlimited", PyNone), RawAlt("Other", PyNone),
     RawAlt("Bogus", PyInt(500)), RawAlt("GND", PyNone),
     PyDict([type |-> PyNone, val |-> PyInt(500)]), PyDict([val |-> PyInt(500)]), PyNone}
RawBounded(lower) ==
    RawPolygon("BOUND", "C", lower, RawAlt("Unlimited", PyNone),
               <<RawPoint(46, 7), RawPoint(46, 8), RawPoint(47, 8)>>)
\* Records that leave out a bound, or both.
RawUnbounded(bounds) ==
    PyDict(bounds @@ [name |-> "OPEN", class |-> "G",
                      geom |-> PyDict([type |-> PyStr("Polygon"),
                                       segments |-> PyList(<<RawPoint(46, 7), RawPoint(46, 8),
                                                             RawPoint(47, 8)>>)])])
SampleRawInputs ==
    SampleRecords
    \cup {RawBroken, RawSpeck, RawMixed, RawUnbounded(<<>>),
          RawUnbounded([lowerBound |-> RawAlt("FeetAmsl", PyInt(1000))]),
          RawUnbounded([upperBound |-> RawAlt("FlightLevel", PyInt(75))])}
    \cup {RawBounded(lower) : lower \in RawAltitudes}

\* The input drawn, as a record with one field named by what it is.
Inputs ==
    {[airspaces |-> q] : q \in AirspaceSeqs(MaxAirspaces) \cup {<<a>> : a \in ExtraAirspaces}}
    \cup {[altitude |-> a] : a \in SampleAltitudes}
    \cup {[color |-> c] : c \in SampleColors}
    \cup {[raw |-> r] : r \in SampleRawInputs}
IsInput(arg, kind) == DOMAIN arg = {kind}

\* convert_airspace_to_geojson, line 58: the tally handed to the summary.
\* No statement of the loop writes to it.
skipped_reasons(airspaces) == [reason \in {} |-> 0]

\* _print_conversion_summary: sum(skipped_reasons.values()).
RECURSIVE total_skipped(_)
total_skipped(reasons) ==
    IF DOMAIN reasons = {} THEN 0
    ELSE Bind(CHOOSE r \in DOMAIN reasons : TRUE, LAMBDA r :
           reasons[r] + total_skipped([x \in DOMAIN reasons \ {r} |-> reasons[x]]))

\* A function applied to the input drawn: the call is recorded.
Applied(op, ret, skipped) ==
    /\ call' = [op |-> op, arg |-> call.arg, ret |-> ret, skipped |-> skipped]
    /\ UNCHANGED <<files, cached_airspaces, cached_geojson, current_filename>>

PureInit ==
    /\ files = [p \in Paths |-> MissingFile]
    /\ cached_airspaces = None
    /\ cached_geojson = None
    /\ current_filename = None
    /\ call \in {[op |-> "input", arg |-> a, ret |-> None, skipped |-> 0] : a \in Inputs}

ConvertToGeoJSON ==
    /\ IsInput(call.arg, "airspaces")
    /\ Applied("convert_airspace_to_geojson", convert_airspace_to_geojson(call.arg.airspaces),
               total_skipped(skipped_reasons(call.arg.airspaces)))

ConvertToKml ==
    /\ IsInput(call.arg, "airspaces")
    /\ Applied("convert_airspace_to_kml", convert_airspace_to_kml(call.arg.airspaces), 0)

ToText ==
    /\ IsInput(call.arg, "altitude")
    /\ Applied("to_text", to_text(call.arg.altitude), 0)

IsGroundLower ==
    /\ IsInput(call.arg, "altitude")
    /\ Applied("is_ground_lower", is_ground_lower(call.arg.altitude), 0)

HexToKmlColor ==
    /\ IsInput(call.arg, "color")
    /\ Applied("hex_to_kml_color", hex_to_kml_color(call.arg.color), 0)

ConvertRawAirspace ==
    /\ IsInput(call.arg, "raw")
    /\ Applied("convert_raw_airspace", convert_raw_airspace(call.arg.raw), 0)

PureNext ==
    \/ ConvertToGeoJSON
    \/ ConvertToKml
    \/ ToText
    \/ IsGroundLower
    \/ HexToKmlColor
    \/ ConvertRawAirspace

PureSpec == PureInit /\ [][PureNext]_vars

(***************************************************************************)
(* app/routes/main_routes.py: the upload route.  A third specification,   *)
(* UploadSpec, runs the routes on the service; `call` records the request. *)
(***************************************************************************)
\* config.py: ALLOWED_EXTENSIONS and UPLOAD_FOLDER (a temp directory).
ALLOWED_EXTENSIONS == {"txt", "air", "openair"}
UPLOAD_FOLDER == "upload"

\* The files clients send: one the parser rejects, one without airspaces,
\* files of records that convert, and one with a record that does not.
UploadContents ==
    {MalformedFile, ParsedFile(<<>>), ParsedFile(<<RawTMA>>),
     ParsedFile(<<RawTMA, RawSpot>>), ParsedFile(<<RawBroken>>)}

\* filename.rsplit(".", 1)[1]: the text after the last dot of a name that
\* has one, looked for from position i down.
RECURSIVE after_last_dot(_, _)
after_last_dot(filename, i) ==
    IF SubSeq(filename, i, i) = "." THEN SubSeq(filename, i + 1, Len(filename))
    ELSE after_last_dot(filename, i - 1)

\* allowed_file (the names sent are in lower case)
allowed_file(filename, allowed_extensions) ==
    /\ \E i \in 1..Len(filename) : SubSeq(filename, i, i) = "."
    /\ after_last_dot(filename, Len(filename)) \in allowed_extensions

\* get_secure_filepath: secure_filename leaves the names sent as they are.
get_secure_filepath(filename, upload_folder) == upload_folder \o "/" \o filename

\* cleanup_temp_file: the file is removed if it exists; a removal that
\* fails is reported by a warning and the file stays.
cleanup_temp_file(fs, filepath, removable) ==
    IF exists(fs, filepath) /\ removable
    THEN [fs EXCEPT ![filepath] = MissingFile] ELSE fs

\* What a request leaves: the slot, the files, how the handler was left,
\* whether it saved a temp file, and the message flashed.
Response(slot, fs, exit, saved, flashed) ==
    [slot |-> slot, files |-> fs, exit |-> exit, saved |-> saved, flashed |-> flashed]

\* upload_file, lines 93-108: after file.save, with the files as saved.
\* escape says where an exception that no handler of the request catches is
\* raised: nowhere ("none"), or in the parser ("parse_file") as an exception
\* that is not an Exception (KeyboardInterrupt, SystemExit), which
\* `except Exception` lets through.
upload_saved(service, saved_fs, filename, filepath, escape, removable) ==
    IF escape = "parse_file"
    THEN Response(service, saved_fs, "exception", TRUE, "")
    ELSE Bind(load_from_uploaded_file(service, saved_fs, filepath, filename), LAMBDA out :
           Response(out.slot, cleanup_temp_file(saved_fs, filepath, removable),
                    IF out.ret[1] THEN "success" ELSE "parse_error", TRUE,
                    IF out.ret[1]
                    THEN "Successfully loaded "
                         \o ToString(Len(Val(get_cached_data(out.slot, saved_fs).ret[1])))
                         \o " airspaces from " \o filename
                    ELSE "Error parsing file: " \o Val(out.ret[2])))

\* upload_file, for a request that carries a file with a name.
upload_file(service, fs, filename, content, escape, removable) ==
    IF allowed_file(filename, ALLOWED_EXTENSIONS)
    THEN Bind(get_secure_filepath(filename, UPLOAD_FOLDER), LAMBDA filepath :
           upload_saved(service, [fs EXCEPT ![filepath] = content], filename, filepath,
                        escape, removable))
    ELSE Response(service, fs, "invalid_type", FALSE,
                  "Invalid file type. Please upload .txt, .air, or .openair files.")

\* A request to /upload: the file sent, and what the environment does to
\* the request (an exception that escapes, a removal that fails).
UploadFile ==
    \E filename \in {"other.txt", "notes.pdf"} : \E content \in UploadContents :
    \E escape \in {"none", "parse_file"} : \E removable \in BOOLEAN :
        Bind(upload_file(self, files, filename, content, escape, removable), LAMBDA r :
          /\ cached_airspaces' = r.slot.cached_airspaces
          /\ cached_geojson' = r.slot.cached_geojson
          /\ current_filename' = r.slot.current_filename
          /\ files' = r.files
          /\ call' = [op |-> "upload_file", filename |-> filename,
                      filepath |-> get_secure_filepath(filename, UPLOAD_FOLDER),
                      content |-> content, pre |-> self, exit |-> r.exit,
                      saved |-> r.saved, removable |-> removable,
                      flashed |-> r.flashed])

\* The application as started: the default file as shipped, no temp file,
\* nothing cached.
UploadInit ==
    /\ files = [p \in Paths |-> IF p = get_default_airspace_path
                                THEN ParsedFile(<<RawTMA, RawSpot>>) ELSE MissingFile]
    /\ cached_airspaces = None
    /\ cached_geojson = None
    /\ current_filename = None
    /\ call = Call("init", None, None, EmptySlot,
                   Outcome(EmptySlot, None, None, 0, 0, TRUE))

\* The routes: /upload, /reset and / (which reads the cached data).
UploadNext ==
    \/ UploadFile
    \/ Reset
    \/ GetCachedData

UploadSpec == UploadInit /\ [][UploadNext]_vars

(***************************************************************************)
(* Two requests interleaved on the shared service, without a lock.  A     *)
(* fourth specification, ConcSpec: one request writes the slot field by    *)
(* field (load_airspace_data, load_from_uploaded_file or reset_to_default) *)
(* while another runs get_cached_data read by read.  `call` holds what     *)
(* each request has still to do.                                           *)
(***************************************************************************)
\* A writing request: the method (kind), the fields it has still to assign
\* in the order the method assigns them, and the values it assigns.
Writer(kind, target) ==
    [kind |-> kind, target |-> target,
     pending |-> CASE kind = "load" ->
                        <<"cached_airspaces", "current_filename", "cached_geojson">>
                   [] kind \in {"upload", "reset"} ->
                        <<"cached_airspaces", "cached_geojson", "current_filename">>
                   [] OTHER -> <<>>]

\* A reading request in get_cached_data: where it is, the airspaces it read
\* for its return value, the pair it returned and by which branch, and
\* whether a writer was between two of its assignments while it ran.
Reader(pc, ret, path, overlapped) ==
    [pc |-> pc, seen |-> None, ret |-> ret, path |-> path, overlapped |-> overlapped]

\* Mutant of assigned_value: the GeoJSON assigned is that of the records the
\* writer parsed, whatever the airspaces field holds by then.
assigned_value_of_target(writer, slot, field) == writer.target[field]

\* The value a writer assigns to a field: the GeoJSON of a load is computed
\* from the airspaces the field holds at that moment.
assigned_value(writer, slot, field) ==
    IF writer.kind \in {"load", "upload"} /\ field = "cached_geojson"
       /\ ~IsNone(slot.cached_airspaces)
    THEN loaded_slot(Val(slot.cached_airspaces), "").cached_geojson
    ELSE writer.target[field]

\* The service's fields become those of the slot.
Store(slot) ==
    /\ cached_airspaces' = slot.cached_airspaces
    /\ cached_geojson' = slot.cached_geojson
    /\ current_filename' = slot.current_filename

\* The two requests after a step.  A reader that is running while the
\* writer has assigned some of its three fields and not yet all has
\* overlapped it.
Running(writer, reader) ==
    call' = [op |-> "concurrent", writer |-> writer,
             reader |-> IF /\ reader.pc \notin {"idle", "done"}
                           /\ Len(writer.pending) \in {1, 2}
                        THEN [reader EXCEPT !.overlapped = TRUE] ELSE reader]

ConcInit ==
    /\ files = [p \in Paths |-> IF p = get_default_airspace_path
                                THEN ParsedFile(<<RawTMA, RawSpot>>)
                                ELSE ParsedFile(<<RawCTR>>)]
    /\ cached_airspaces = None
    /\ cached_geojson = None
    /\ current_filename = None
    /\ call = [op |-> "concurrent", writer |-> Writer("idle", EmptySlot),
               reader |-> Reader("idle", <<None, None>>, "none", FALSE)]

\* load_airspace_data(filepath) up to its first assignment: the memo is
\* missed, the file is parsed and its records are converted.
BeginLoad ==
    \E filepath \in Paths :
        /\ call.writer.pending = <<>>
        /\ must_reload(self, filepath) /\ exists(files, filepath)
        /\ parse_and_convert(files, filepath).ok
        /\ Running(Writer("load", loaded_slot(parse_and_convert(files, filepath).val, filepath)),
                   call.reader)
        /\ UNCHANGED <<files, cached_airspaces, cached_geojson, current_filename>>

\* load_from_uploaded_file up to its first assignment.
BeginUpload ==
    \E filepath \in Paths :
        /\ call.writer.pending = <<>>
        /\ parse_and_convert(files, filepath).ok
        /\ Running(Writer("upload", loaded_slot(parse_and_convert(files, filepath).val, "custom.txt")),
                   call.reader)
        /\ UNCHANGED <<files, cached_airspaces, cached_geojson, current_filename>>

\* reset_to_default up to its first assignment.
BeginReset ==
    /\ call.writer.pending = <<>>
    /\ Running(Writer("reset", EmptySlot), call.reader)
    /\ UNCHANGED <<files, cached_airspaces, cached_geojson, current_filename>>

\* The writer assigns its next field.
WriterStep ==
    /\ call.writer.pending # <<>>
    /\ Store([self EXCEPT ![Head(call.writer.pending)] =
                 assigned_value(call.writer, self, Head(call.writer.pending))])
    /\ Running([call.writer EXCEPT !.pending = Tail(@)],
               IF call.reader.pc \notin {"idle", "done"}
               THEN [call.reader EXCEPT !.overlapped = TRUE] ELSE call.reader)
    /\ UNCHANGED files

\* get_cached_data, else branch: load_airspace_data() is called and its
\* pair returned.
ReaderLoads ==
    Bind(load_airspace_data(self, files, None), LAMBDA out :
      /\ Store(out.slot)
      /\ Running(call.writer, Reader("done", out.ret, "loaded", call.reader.overlapped))
      /\ UNCHANGED files)

\* get_cached_data, line 186: self._cached_airspaces is not None
ReaderChecksAirspaces ==
    /\ call.reader.pc = "idle"
    /\ IF IsNone(cached_airspaces) THEN ReaderLoads
       ELSE /\ Running(call.writer, [call.reader EXCEPT !.pc = "checked_airspaces"])
            /\ UNCHANGED <<files, cached_airspaces, cached_geojson, current_filename>>

\* get_cached_data, line 186: self._cached_geojson is not None
ReaderChecksGeoJSON ==
    /\ call.reader.pc = "checked_airspaces"
    /\ IF IsNone(cached_geojson) THEN ReaderLoads
       ELSE /\ Running(call.writer, [call.reader EXCEPT !.pc = "checked"])
            /\ UNCHANGED <<files, cached_airspaces, cached_geojson, current_filename>>

\* get_cached_data, line 187: self._cached_airspaces is read for the pair.
ReaderReadsAirspaces ==
    /\ call.reader.pc = "checked"
    /\ Running(call.writer, [call.reader EXCEPT !.pc = "read_airspaces",
                                                !.seen = cached_airspaces])
    /\ UNCHANGED <<files, cached_airspaces, cached_geojson, current_filename>>

\* get_cached_data, line 187: self._cached_geojson is read and the pair
\* is returned.
ReaderReturns ==
    /\ call.reader.pc = "read_airspaces"
    /\ Running(call.writer, [call.reader EXCEPT !.pc = "done", !.path = "cached",
                                                !.ret = <<call.reader.seen, cached_geojson>>])
    /\ UNCHANGED <<files, cached_airspaces, cached_geojson, current_filename>>

\* The reading request is over; the next one may come.
ReaderLeaves ==
    /\ call.reader.pc = "done"
    /\ Running(call.writer, Reader("idle", <<None, None>>, "none", FALSE))
    /\ UNCHANGED <<files, cached_airspaces, cached_geojson, current_filename>>

ConcNext ==
    \/ BeginLoad
    \/ BeginUpload
    \/ BeginReset
    \/ WriterStep
    \/ ReaderChecksAirspaces
    \/ ReaderChecksGeoJSON
    \/ ReaderReadsAirspaces
    \/ ReaderReturns
    \/ ReaderLeaves

ConcSpec == ConcInit /\ [][ConcNext]_vars

(***************************************************************************)
(* The claims.  `call` holds the last call made on the service: call.pre   *)
(* is the slot it found, `self` the slot it left, `files` the files it saw.*)
(***************************************************************************)
\* The path a load_airspace_data call resolves its argument to.
CallPath ==
    IF IsNone(call.filepath) THEN get_default_airspace_path ELSE Val(call.filepath)

\* The file whose records the last load or upload handed to the parser: the
\* path itself, or the default path a missing path is retried with.
ParsedPath ==
    IF call.op = "load_airspace_data" /\ ~exists(files, CallPath)
    THEN get_default_airspace_path ELSE CallPath

\* The typed airspaces of the records that convert, in order.
RECURSIVE ConvertibleRecords(_)
ConvertibleRecords(raw_airspaces) ==
    IF raw_airspaces = <<>> THEN <<>>
    ELSE (IF convert_raw_airspace(Head(raw_airspaces)).ok
          THEN <<convert_raw_airspace(Head(raw_airspaces)).val>> ELSE <<>>)
         \o ConvertibleRecords(Tail(raw_airspaces))

HasAirspaces(slot) == ~IsNone(slot.cached_airspaces) /\ Val(slot.cached_airspaces) # <<>>

\* C1: a load of the path the slot already holds data for, whose file still
\* exists, does not invoke the parser, returns the cached airspace list and
\* GeoJSON, and leaves every field of the slot unchanged.
C1_LoadMemoized ==
    (/\ call.op = "load_airspace_data"
     /\ ~IsNone(call.pre.cached_airspaces)
     /\ call.pre.current_filename = Some(CallPath)
     /\ exists(files, CallPath))
    => (/\ call.parser_calls = 0
        /\ call.ret = <<call.pre.cached_airspaces, call.pre.cached_geojson>>
        /\ self = call.pre)

\* C1 witness: a second load of the path whose airspaces are cached.
C1_Witness ==
    /\ call.op = "load_airspace_data"
    /\ HasAirspaces(call.pre)
    /\ call.pre.current_filename = Some(CallPath)
    /\ exists(files, CallPath)
    /\ call.returned

\* C2: an upload whose parsing or record conversion fails does not raise,
\* returns (False, message) and leaves the three slot fields as they were.
C2_UploadFailureKeepsCache ==
    (/\ call.op = "load_from_uploaded_file"
     /\ ~parse_and_convert(files, CallPath).ok)
    => (/\ call.raised = None
        /\ call.ret[1] = FALSE
        /\ ~IsNone(call.ret[2])
        /\ self = call.pre)

\* C2 witness: an upload whose record conversion fails, over cached airspaces.
C2_Witness ==
    /\ call.op = "load_from_uploaded_file"
    /\ files[CallPath].state = "ok"
    /\ ~parse_and_convert(files, CallPath).ok
    /\ HasAirspaces(call.pre)
    /\ call.ret[1] = FALSE

\* C3: a load that hands an existing file to the parser, and the parser or
\* the record conversion raises, raises nothing to its caller: the slot holds
\* an empty airspace list and the empty FeatureCollection, and what was
\* cached before is gone.
C3_LoadFailureEmptiesCache ==
    (/\ call.op = "load_airspace_data"
     /\ exists(files, CallPath)
     /\ call.parser_calls = 1
     /\ ~parse_and_convert(files, CallPath).ok)
    => (/\ call.raised = None
        /\ call.returned
        /\ self = Slot(Some(<<>>), Some(EmptyFeatureCollection), None)
        /\ call.ret = <<Some(<<>>), Some(EmptyFeatureCollection)>>)

\* C3 witness: a failing load over airspaces cached by an earlier call.
C3_Witness ==
    /\ call.op = "load_airspace_data"
    /\ exists(files, CallPath)
    /\ call.parser_calls = 1
    /\ ~parse_and_convert(files, CallPath).ok
    /\ HasAirspaces(call.pre)
    /\ self.cached_airspaces = Some(<<>>)

\* C4: from an Empty slot with the default file missing, load() and
\* get_cached_data() return an empty airspace list and the empty
\* FeatureCollection, never an absent list or GeoJSON.
C4_MissingDefaultGivesEmptyCollection ==
    (/\ call.op \in {"load_airspace_data", "get_cached_data"}
     /\ IsNone(call.filepath)
     /\ call.pre = EmptySlot
     /\ ~exists(files, get_default_airspace_path))
    => call.ret = <<Some(<<>>), Some(EmptyFeatureCollection)>>

\* C5: every load call returns, after at most one retry and at most one run
\* of the parser; a path that is missing and is not the default path is
\* retried exactly once, with the default path, and any other call not at all.
C5_LoadRetriesDefaultOnce ==
    call.op = "load_airspace_data"
    => (/\ call.returned
        /\ call.parser_calls <= 1
        /\ call.load_calls =
              IF ~exists(files, CallPath) /\ CallPath # get_default_airspace_path
              THEN 2 ELSE 1
        /\ self.current_filename \in {None, call.pre.current_filename,
                                      Some(ParsedPath)})

\* C5 witness: a load of a missing path that is retried with a default file
\* that is missing too.
C5_Witness ==
    /\ call.op = "load_airspace_data"
    /\ CallPath # get_default_airspace_path
    /\ ~exists(files, CallPath)
    /\ ~exists(files, get_default_airspace_path)
    /\ call.load_calls = 2
    /\ call.returned

\* C6: get_airspace_stats never invokes the parser and never changes the
\* slot; on an Empty slot it returns total 0 and an empty class mapping.
C6_StatsNeverLoads ==
    call.op = "get_airspace_stats"
    => (/\ call.parser_calls = 0
        /\ self = call.pre
        /\ (call.pre = EmptySlot
            => call.ret = [total_airspaces |-> 0, classes |-> <<>>]))

\* C7: after reset_to_default the cached airspaces, the cached GeoJSON and
\* the current file name are all absent, whatever the slot held.
C7_ResetEmptiesSlot ==
    call.op = "reset_to_default"
    => (/\ IsNone(cached_airspaces)
        /\ IsNone(cached_geojson)
        /\ IsNone(current_filename))

\* C7 witness: a reset of a slot that held airspaces under a file name.
C7_Witness ==
    /\ call.op = "reset_to_default"
    /\ HasAirspaces(call.pre)
    /\ ~IsNone(call.pre.current_filename)

\* C8: get_cached_data loads the default file if and only if the slot is
\* Empty; on any other slot it returns the slot's contents, does not invoke
\* the parser and leaves the slot unchanged.
C8_GetCachedLoadsIffEmpty ==
    call.op = "get_cached_data"
    => (/\ (call.load_calls > 0) <=> (call.pre = EmptySlot)
        /\ (call.pre = EmptySlot /\ exists(files, get_default_airspace_path))
           => (/\ call.parser_calls = 1
               /\ current_filename \in {None, Some(get_default_airspace_path)})
        /\ (call.pre # EmptySlot)
           => (/\ call.parser_calls = 0
               /\ self = call.pre
               /\ call.ret = <<call.pre.cached_airspaces, call.pre.cached_geojson>>))

\* C8 witness: get_cached_data on a slot that holds an upload's airspaces.
C8_Witness ==
    /\ call.op = "get_cached_data"
    /\ HasAirspaces(call.pre)
    /\ call.pre.current_filename = Some("custom.txt")
    /\ call.returned

\* C9: export_to_kml raises "No airspaces loaded to export." exactly when
\* the airspaces are empty or absent after its load attempt, and then
\* returns no document; otherwise it returns the document rendered from the
\* airspaces the slot holds.
C9_ExportFailsIffEmpty ==
    call.op = "export_to_kml"
    => (/\ (~IsNone(call.raised)) <=> ~HasAirspaces(self)
        /\ ~IsNone(call.raised)
           => (/\ call.raised = Some("ValueError: No airspaces loaded to export.")
               /\ IsNone(call.ret))
        /\ IsNone(call.raised)
           => call.ret = Some(convert_airspace_to_kml(Val(cached_airspaces))))

\* C9 witness: an export that raises after its load attempt found nothing.
C9_Witness ==
    /\ call.op = "export_to_kml"
    /\ ~IsNone(call.raised)
    /\ call.load_calls > 0
    /\ exists(files, get_default_airspace_path)

\* C10: when the parser returns records, the load or upload caches the typed
\* airspace of every record that converts, and their projection: a record
\* whose conversion raises is skipped alone.
C10_BadRecordSkippedAlone ==
    (/\ call.op \in {"load_airspace_data", "load_from_uploaded_file"}
     /\ call.parser_calls = 1
     /\ files[ParsedPath].state = "ok")
    => (/\ cached_airspaces = Some(ConvertibleRecords(files[ParsedPath].records))
        /\ cached_geojson = Some(convert_airspace_to_geojson(
                                   ConvertibleRecords(files[ParsedPath].records))))

(***************************************************************************)
(* The claims about the converters, under PureSpec: call.arg is the input  *)
(* drawn and call.ret what the function named by call.op returned for it.  *)
(***************************************************************************)
\* The features each airspace of a list gives when it is projected alone.
RECURSIVE FeaturesOfEachAlone(_)
FeaturesOfEachAlone(airspaces) ==
    IF airspaces = <<>> THEN <<>>
    ELSE convert_airspace_to_geojson(<<Head(airspaces)>>).features
         \o FeaturesOfEachAlone(Tail(airspaces))

\* C11: the GeoJSON projector returns a FeatureCollection for every list; an
\* airspace whose conversion raises contributes no feature, and every other
\* airspace contributes exactly the feature it gives when projected alone.
C11_GeoJSONSkipsFailedAlone ==
    call.op = "convert_airspace_to_geojson"
    => (/\ call.ret.type = "FeatureCollection"
        /\ call.ret.features = FeaturesOfEachAlone(call.arg.airspaces)
        /\ \A i \in DOMAIN call.arg.airspaces :
              ~create_geojson_feature(call.arg.airspaces[i]).ok
              => convert_airspace_to_geojson(<<call.arg.airspaces[i]>>).features = <<>>)

\* C11 witness: a list whose first airspace raises (a centre of one entry)
\* and whose other airspaces all give their feature.
C11_Witness ==
    /\ call.op = "convert_airspace_to_geojson"
    /\ Len(call.arg.airspaces) >= 2
    /\ ~create_geojson_feature(call.arg.airspaces[1]).ok
    /\ Len(call.ret.features) = Len(call.arg.airspaces) - 1

\* The positions of a list whose airspace yields a geometry.
Yielding(airspaces) ==
    {i \in DOMAIN airspaces :
        /\ create_geojson_feature(airspaces[i]).ok
        /\ ~IsNone(create_geojson_feature(airspaces[i]).val.geometry)}

\* The k-th smallest of a set of positions.
Kth(positions, k) ==
    CHOOSE i \in positions : Cardinality({j \in positions : j <= i}) = k

\* C12: the features of the GeoJSON output are, in input order, the
\* features of the airspaces that yield a geometry: as many features as
\* airspaces not dropped, the k-th feature that of the k-th surviving
\* airspace, and no feature with a null geometry.
C12_GeoJSONKeepsOrder ==
    call.op = "convert_airspace_to_geojson"
    => (/\ Len(call.ret.features) = Cardinality(Yielding(call.arg.airspaces))
        /\ \A k \in DOMAIN call.ret.features :
              /\ ~IsNone(call.ret.features[k].geometry)
              /\ call.ret.features[k] =
                    create_geojson_feature(
                        call.arg.airspaces[Kth(Yielding(call.arg.airspaces), k)]).val)

\* C12 witness: two different surviving airspaces around a dropped one.
C12_Witness ==
    /\ call.op = "convert_airspace_to_geojson"
    /\ Len(call.arg.airspaces) = 3
    /\ Yielding(call.arg.airspaces) = {1, 3}
    /\ call.arg.airspaces[1] # call.arg.airspaces[3]
    /\ Len(call.ret.features) = 2

\* The [lng, lat] points of a polygon airspace, as given.
InputPoints(airspace) ==
    [i \in DOMAIN airspace.geom.segments |->
        <<airspace.geom.segments[i].lng, airspace.geom.segments[i].lat>>]

\* A ring of KML coordinates without its altitudes.
Flat(ring3d) == [i \in DOMAIN ring3d |-> <<ring3d[i][1], ring3d[i][2]>>]

\* The ring a projector emitted for a list of one airspace: the ring of the
\* GeoJSON polygon, of the KML polygon, or of the top face of the KML solid.
EmittedRing ==
    IF call.op = "convert_airspace_to_geojson"
    THEN Val(call.ret.features[1].geometry).coordinates[1]
    ELSE IF call.ret.features[1].kind = "Polygon"
    THEN Flat(call.ret.features[1].outerboundaryis)
    ELSE Flat(call.ret.features[1].polygons[1].outerboundaryis)

\* ring is points closed: the points in order, the first repeated at the
\* end unless the last point already equals it.
ClosedRingOf(points, ring) ==
    /\ ring[1] = ring[Len(ring)]
    /\ Len(ring) = IF points[1] = points[Len(points)]
                   THEN Len(points) ELSE Len(points) + 1
    /\ \A i \in DOMAIN points : ring[i] = points[i]

\* A call of a projector on a list of exactly one airspace.
ProjectsOne(op) ==
    /\ call.op = op
    /\ Len(call.arg.airspaces) = 1

\* C13: for a polygon airspace of N > 2 points, the ring either projector
\* emits starts and ends with the same coordinate, keeps the points in
\* order, and has N coordinates when the polygon was given closed and
\* N + 1 otherwise.
C13_PolygonRingClosed ==
    (/\ ProjectsOne("convert_airspace_to_geojson") \/ ProjectsOne("convert_airspace_to_kml")
     /\ call.arg.airspaces[1].geom.cls = "PolygonGeometry"
     /\ Len(call.arg.airspaces[1].geom.segments) > 2)
    => (/\ Len(call.ret.features) = 1
        /\ ClosedRingOf(InputPoints(call.arg.airspaces[1]), EmittedRing))

\* C13 witness: the KML ring of a polygon of three points given open.
C13_Witness ==
    /\ ProjectsOne("convert_airspace_to_kml")
    /\ call.arg.airspaces[1].geom.cls = "PolygonGeometry"
    /\ Len(call.arg.airspaces[1].geom.segments) = 3
    /\ Len(EmittedRing) = 4

\* A polygon airspace of exactly two points.
IsTwoPointPolygon(airspace) ==
    /\ airspace.geom.cls = "PolygonGeometry"
    /\ Len(airspace.geom.segments) = 2

\* The feature carries the overrides of a line obstacle for the airspace.
LineObstacleFeature(feature, airspace) ==
    /\ feature.geometry = Some([type |-> "LineString",
                                coordinates |-> InputPoints(airspace)])
    /\ feature.properties.color = "#FF0000"
    /\ feature.properties.description =
          airspace.name \o " (" \o airspace.class_ \o ") - Line Obstacle"
    /\ feature.properties.geometryType = Some("line")

\* The feature carries none of the overrides of a line obstacle.
OrdinaryFeature(feature, airspace) ==
    /\ Val(feature.geometry).type # "LineString"
    /\ feature.properties.color = get_airspace_color(airspace.class_)
    /\ feature.properties.description =
          airspace.name \o " (" \o airspace.class_ \o ")"
    /\ IsNone(feature.properties.geometryType)

\* C14: a polygon airspace of exactly 2 points, whatever its class, gives a
\* GeoJSON LineString of those 2 coordinates with color #FF0000, the
\* description "{name} ({class}) - Line Obstacle" and geometryType "line";
\* an airspace of any other shape gets none of these overrides.
C14_LineObstacle ==
    ProjectsOne("convert_airspace_to_geojson")
    => IF IsTwoPointPolygon(call.arg.airspaces[1])
       THEN /\ Len(call.ret.features) = 1
            /\ LineObstacleFeature(call.ret.features[1], call.arg.airspaces[1])
       ELSE \A k \in DOMAIN call.ret.features :
               OrdinaryFeature(call.ret.features[k], call.arg.airspaces[1])

\* C14 witness: the feature of a two-point polygon whose class has a colour
\* of its own.
C14_Witness ==
    /\ ProjectsOne("convert_airspace_to_geojson")
    /\ IsTwoPointPolygon(call.arg.airspaces[1])
    /\ get_airspace_color(call.arg.airspaces[1].class_) # DEFAULT_COLOR
    /\ Len(call.ret.features) = 1

\* A circle the projector cannot draw: a radius of 0 or less, or no centre.
InvalidCircle(geom) ==
    \/ geom.radius.t = "int" /\ geom.radius.v <= 0
    \/ ~Truthy(geom.centerpoint)
    \/ geom.centerpoint.t = "dict" /\ ~({"lat", "lng"} \subseteq DOMAIN geom.centerpoint.v)

\* An airspace dropped for its geometry: fewer than 2 points, invalid circle.
HasNoGeometry(airspace) ==
    \/ airspace.geom.cls = "PolygonGeometry" /\ Len(airspace.geom.segments) < 2
    \/ airspace.geom.cls = "CircleGeometry" /\ InvalidCircle(airspace.geom)

\* C15: every airspace with fewer than 2 points or an invalid circle gives no
\* GeoJSON feature and is counted in the skipped tally, so the tally's total
\* after a projection is the number of airspaces dropped for their geometry.
C15_SkippedTallied ==
    call.op = "convert_airspace_to_geojson"
    => (/\ \A i \in DOMAIN call.arg.airspaces :
              HasNoGeometry(call.arg.airspaces[i])
              => convert_airspace_to_geojson(<<call.arg.airspaces[i]>>).features = <<>>
        /\ call.skipped =
              Cardinality({i \in DOMAIN call.arg.airspaces :
                              HasNoGeometry(call.arg.airspaces[i])}))

\* The part of C15 the projector keeps: such an airspace gives no feature.
C15_DroppedGiveNoFeature ==
    call.op = "convert_airspace_to_geojson"
    => \A i \in DOMAIN call.arg.airspaces :
          HasNoGeometry(call.arg.airspaces[i])
          => convert_airspace_to_geojson(<<call.arg.airspaces[i]>>).features = <<>>

\* The number an altitude value stands for: 0 when missing or not numeric.
NumericValue(val) ==
    IF val.t = "int" THEN val.v
    ELSE IF val.t = "str" /\ val.v \in DOMAIN NumericStrings THEN NumericStrings[val.v]
    ELSE 0

\* The lower bound touches ground: Ground, or FeetAGL with a value <= 0.
TouchesGround(altitude) ==
    \/ altitude.type = "GND"
    \/ altitude.type = "FEET_AGL" /\ NumericValue(altitude.val) <= 0

\* A circle with a numeric centre and a radius above 0.
ValidCircle(geom) ==
    /\ geom.centerpoint.t = "list"
    /\ Len(geom.centerpoint.v) >= 2
    /\ geom.centerpoint.v[1].t = "int"
    /\ geom.centerpoint.v[2].t = "int"
    /\ geom.radius.t = "int"
    /\ geom.radius.v > 0

\* A polygon of 3 or more points, or a valid circle.
HasRing(airspace) ==
    \/ airspace.geom.cls = "PolygonGeometry" /\ Len(airspace.geom.segments) >= 3
    \/ airspace.geom.cls = "CircleGeometry" /\ ValidCircle(airspace.geom)

\* The edges of the closed ring of such an airspace: one per point of a
\* polygon given open, one fewer when it is given closed, 36 for a circle.
RingEdges(airspace) ==
    IF airspace.geom.cls = "CircleGeometry" THEN 36
    ELSE IF airspace.geom.segments[1] = airspace.geom.segments[Len(airspace.geom.segments)]
    THEN Len(airspace.geom.segments) - 1
    ELSE Len(airspace.geom.segments)

\* Every coordinate of the ring is at the altitude.
RingAt(ring3d, altitude_m) == \A i \in DOMAIN ring3d : ring3d[i][3] = altitude_m

\* One polygon at the upper altitude and mode, extruded to the ground.
IsExtrudedPolygon(feature, upper) ==
    /\ feature.kind = "Polygon"
    /\ feature.extrude = Some(1)
    /\ feature.altitudemode = upper[1]
    /\ RingAt(feature.outerboundaryis, upper[2])

\* A wall: a closed quad of 5 coordinates.
IsWall(polygon) ==
    /\ Len(polygon.outerboundaryis) = 5
    /\ polygon.outerboundaryis[1] = polygon.outerboundaryis[5]

\* A solid of a top face, a bottom face and one wall per edge, none extruded.
IsSolid(feature, lower, upper, edges) ==
    /\ feature.kind = "MultiGeometry"
    /\ Len(feature.polygons) = 2 + edges
    /\ RingAt(feature.polygons[1].outerboundaryis, upper[2])
    /\ feature.polygons[1].altitudemode = upper[1]
    /\ RingAt(feature.polygons[2].outerboundaryis, lower[2])
    /\ feature.polygons[2].altitudemode = lower[1]
    /\ \A k \in 3..(2 + edges) : IsWall(feature.polygons[k])
    /\ \A k \in DOMAIN feature.polygons : feature.polygons[k].extrude \in {None, Some(0)}

\* C16: for a polygon or valid circle with a closed ring of E edges, the KML
\* output holds one polygon at the upper altitude and mode with extrude 1
\* when the lower bound touches ground, and otherwise one multi-geometry of
\* 2 + E polygons: top face at the upper altitude, bottom face at the lower
\* altitude, one closed 5-coordinate wall per edge, all with extrude off.
C16_KmlVolume ==
    (/\ ProjectsOne("convert_airspace_to_kml")
     /\ HasRing(call.arg.airspaces[1]))
    => (/\ Len(call.ret.features) = 1
        /\ IF TouchesGround(call.arg.airspaces[1].lower_bound)
           THEN IsExtrudedPolygon(call.ret.features[1],
                                  altitude_to_kml(call.arg.airspaces[1].upper_bound))
           ELSE IsSolid(call.ret.features[1],
                        altitude_to_kml(call.arg.airspaces[1].lower_bound),
                        altitude_to_kml(call.arg.airspaces[1].upper_bound),
                        RingEdges(call.arg.airspaces[1])))

\* C16 witness: the solid of a floating circle, of 2 + 36 polygons.
C16_Witness ==
    /\ ProjectsOne("convert_airspace_to_kml")
    /\ call.arg.airspaces[1].geom.cls = "CircleGeometry"
    /\ ~TouchesGround(call.arg.airspaces[1].lower_bound)
    /\ Len(call.ret.features) = 1
    /\ Len(call.ret.features[1].polygons) = 38

\* C17: the lower bound touches ground exactly when it is Ground, or FeetAGL
\* with a value <= 0, a missing or non-numeric value counting as 0; it does
\* not for any FeetAMSL, FlightLevel, Unlimited or Other bound, FeetAMSL 0
\* included.
C17_GroundLower ==
    call.op = "is_ground_lower"
    => (/\ call.ret = TouchesGround(call.arg.altitude)
        /\ call.arg.altitude.type \in {"FEET_AMSL", "FLIGHT_LEVEL", "UNLIMITED", "OTHER"}
           => call.ret = FALSE)

\* C17 witness: FeetAMSL 0 does not touch ground.
C17_Witness ==
    /\ call.op = "is_ground_lower"
    /\ call.arg.altitude = Altitude("FEET_AMSL", PyInt(0))
    /\ call.ret = FALSE

HexDigits ==
    {"0", "1", "2", "3", "4", "5", "6", "7", "8", "9",
     "a", "b", "c", "d", "e", "f", "A", "B", "C", "D", "E", "F"}

\* A colour written #RRGGBB or #AARRGGBB in hexadecimal digits.
WellFormedColor(c) ==
    /\ Len(c) \in {7, 9}
    /\ SubSeq(c, 1, 1) = "#"
    /\ \A i \in 2..Len(c) : SubSeq(c, i, i) \in HexDigits

\* aabbggrr of a well-formed colour, alpha ff when it has none.
ChannelsSwapped(c) ==
    IF Len(c) = 7
    THEN "ff" \o SubSeq(c, 6, 7) \o SubSeq(c, 4, 5) \o SubSeq(c, 2, 3)
    ELSE SubSeq(c, 2, 3) \o SubSeq(c, 8, 9) \o SubSeq(c, 6, 7) \o SubSeq(c, 4, 5)

\* C18: the KML colour of #RRGGBB is ff BB GG RR and of #AARRGGBB is
\* AA BB GG RR; every malformed input, of a wrong length or with digits
\* that are not hexadecimal, gives the opaque red ff0000ff.
C18_HexToKmlColor ==
    call.op = "hex_to_kml_color"
    => call.ret = IF WellFormedColor(call.arg.color)
                  THEN ChannelsSwapped(call.arg.color) ELSE "ff0000ff"

\* The part of C18 the conversion keeps: well-formed colours have their
\* channels swapped and a wrong length gives ff0000ff.
C18_WellFormedOrWrongLength ==
    (/\ call.op = "hex_to_kml_color"
     /\ WellFormedColor(call.arg.color) \/ Len(call.arg.color) \notin {7, 9})
    => call.ret = IF WellFormedColor(call.arg.color)
                  THEN ChannelsSwapped(call.arg.color) ELSE "ff0000ff"

\* feet x 0.3048 rounded to the nearest whole metre.
RoundedMeters(feet) ==
    IF feet >= 0 THEN (feet_to_meters(feet) + MetersScale \div 2) \div MetersScale
    ELSE -((feet_to_meters(-feet) + MetersScale \div 2) \div MetersScale)

\* C19: the text of a FeetAMSL altitude with a numeric value v is
\* "<m> m AMSL", m being v x 0.3048 rounded to the nearest integer (305 for
\* 1000 feet); FeetAGL gives the same number with "m AGL".
C19_ToTextRounds ==
    (/\ call.op = "to_text"
     /\ call.arg.altitude.type \in {"FEET_AMSL", "FEET_AGL"}
     /\ call.arg.altitude.val.t = "int")
    => call.ret = ToString(RoundedMeters(call.arg.altitude.val.v))
                    \o (IF call.arg.altitude.type = "FEET_AMSL"
                        THEN " m AMSL" ELSE " m AGL")

\* The altitude type the claim gives a raw altitude record: its own for one
\* of the six known type strings, Other when unknown or missing.
ExpectedAltitudeType(alt_data) ==
    IF /\ "type" \in DOMAIN alt_data.v
       /\ alt_data.v.type.t = "str"
       /\ alt_data.v.type.v \in DOMAIN AltitudeTypeValues
    THEN AltitudeTypeValues[alt_data.v.type.v]
    ELSE "OTHER"

\* A conversion that returned, of a raw record whose lowerBound is a dict.
ConvertedLowerBound ==
    /\ call.op = "convert_raw_airspace"
    /\ call.ret.ok
    /\ "lowerBound" \in DOMAIN call.arg.raw.v
    /\ call.arg.raw.v.lowerBound.t = "dict"

\* C20: raw altitude conversion gives every altitude record whose type
\* string is unknown or missing the type Other, and each of the six known
\* type strings its own type.
C20_UnknownTypeIsOther ==
    ConvertedLowerBound
    => call.ret.val.lower_bound.type = ExpectedAltitudeType(call.arg.raw.v.lowerBound)

\* The part of C20 the conversion keeps: a type entry that is present maps
\* to its own type when known and to Other when not.
C20_PresentTypeMapped ==
    (ConvertedLowerBound /\ "type" \in DOMAIN call.arg.raw.v.lowerBound.v)
    => call.ret.val.lower_bound.type = ExpectedAltitudeType(call.arg.raw.v.lowerBound)

(***************************************************************************)
(* Claims C21 - C30                                                        *)
(***************************************************************************)
\* An Airspace constructed directly without bounds, as __post_init__ leaves it.
DirectWithoutBounds == Airspace("DIRECT", "G", None, None, PolygonGeometry("Polygon", None))

\* C21: an airspace converted from a raw record that has no lowerBound gets
\* the lower bound Ground, and one converted from a record that has no
\* upperBound gets the upper bound Unlimited, the defaults that direct
\* construction without bounds applies.
C21_MissingBoundsDefault ==
    /\ DirectWithoutBounds.lower_bound = Altitude("GND", PyNone)
    /\ DirectWithoutBounds.upper_bound = Altitude("UNLIMITED", PyNone)
    /\ (call.op = "convert_raw_airspace" /\ call.arg.raw.t = "dict" /\ call.ret.ok) =>
          /\ "lowerBound" \notin DOMAIN call.arg.raw.v =>
                call.ret.val.lower_bound = DirectWithoutBounds.lower_bound
          /\ "upperBound" \notin DOMAIN call.arg.raw.v =>
                call.ret.val.upper_bound = DirectWithoutBounds.upper_bound

\* C22: convert_raw_airspace is total: for every raw record mapping, with any
\* of name, class, lowerBound, upperBound and geom missing or of the wrong
\* shape, geom.segments absent or null included, it returns an Airspace and
\* never raises.
C22_ConvertIsTotal ==
    (call.op = "convert_raw_airspace" /\ call.arg.raw.t = "dict") => call.ret.ok

\* The ring of a KML volume: of the polygon, or of the top face of the solid.
VolumeRing(feature) ==
    IF feature.kind = "Polygon" THEN Flat(feature.outerboundaryis)
    ELSE Flat(feature.polygons[1].outerboundaryis)

\* The KML feature is of the kind of the GeoJSON geometry: a red line
\* string for a LineString, a volume for a Polygon.
SameKind(feature, geometry) ==
    IF geometry.type = "LineString"
    THEN feature.kind = "LineString" /\ feature.color = hex_to_kml_color("#FF0000")
    ELSE feature.kind \in {"Polygon", "MultiGeometry"}

\* The KML feature has the vertices of the GeoJSON geometry, in its order.
SameVertices(feature, geometry) ==
    IF geometry.type = "LineString"
    THEN feature.kind = "LineString" /\ feature.coords = geometry.coordinates
    ELSE feature.kind # "LineString" /\ VolumeRing(feature) = geometry.coordinates[1]

\* C23: the KML projector reduces the input geometry exactly as the GeoJSON
\* projector does: it emits a geometry exactly when GeoJSON emits a feature,
\* and of the same kind and with the same vertices in the same order: a red
\* line string for 2 points, a closed-ring volume for more than 2 points or
\* a valid circle, nothing otherwise.
C23_KmlReducesAsGeoJSON ==
    call.op = "convert_airspace_to_kml"
    => (/\ Len(call.ret.features) = Len(convert_airspace_to_geojson(call.arg.airspaces).features)
        /\ \A k \in DOMAIN call.ret.features :
              /\ SameKind(call.ret.features[k],
                     Val(convert_airspace_to_geojson(call.arg.airspaces).features[k].geometry))
              /\ SameVertices(call.ret.features[k],
                     Val(convert_airspace_to_geojson(call.arg.airspaces).features[k].geometry)))

\* C23, the part without the vertices: the KML output holds a geometry for
\* exactly the airspaces GeoJSON holds a feature for, of the same kind.
C23_SameFeaturesSameKind ==
    call.op = "convert_airspace_to_kml"
    => (/\ Len(call.ret.features) = Len(convert_airspace_to_geojson(call.arg.airspaces).features)
        /\ \A k \in DOMAIN call.ret.features :
              SameKind(call.ret.features[k],
                  Val(convert_airspace_to_geojson(call.arg.airspaces).features[k].geometry)))

\* C23, the vertices: they are those of GeoJSON unless the 36 vertices of a
\* circle coincide.
C23_SameVerticesUnlessCollapsed ==
    (/\ ProjectsOne("convert_airspace_to_kml")
     /\ Len(call.ret.features) = 1
     /\ call.arg.airspaces[1].geom.radius # PyEpsilon)
    => SameVertices(call.ret.features[1],
           Val(convert_airspace_to_geojson(call.arg.airspaces).features[1].geometry))

\* C26: after any sequence of service operations run one after the other,
\* the cached airspaces are absent exactly when the cached GeoJSON is
\* absent, and a recorded current file name implies both are present.
C26_SlotFieldsAgree ==
    /\ IsNone(cached_airspaces) <=> IsNone(cached_geojson)
    /\ ~IsNone(current_filename) => ~IsNone(cached_airspaces) /\ ~IsNone(cached_geojson)

\* C26 witness: an upload has succeeded and its display name is recorded.
C26_Witness ==
    /\ call.op = "load_from_uploaded_file"
    /\ call.ret[1]
    /\ current_filename = call.original_filename
    /\ ~IsNone(cached_airspaces)
    /\ ~IsNone(cached_geojson)

\* C27: whenever the slot is Loaded, the cached GeoJSON is the projection of
\* the cached airspace list, so its feature count never exceeds the total
\* that get_airspace_stats reports.
C27_GeoJSONIsProjection ==
    ~IsNone(cached_airspaces)
    => (/\ cached_geojson = Some(convert_airspace_to_geojson(Val(cached_airspaces)))
        /\ Len(Val(cached_geojson).features) <= Len(Val(cached_airspaces))
        /\ (call.op = "get_airspace_stats" /\ call.returned)
              => Len(Val(cached_geojson).features) <= call.ret.total_airspaces)

\* C27 witness: the statistics of a slot whose two airspaces project to one
\* feature.
C27_Witness ==
    /\ call.op = "get_airspace_stats"
    /\ call.returned
    /\ call.ret.total_airspaces = 2
    /\ ~IsNone(cached_geojson)
    /\ Len(Val(cached_geojson).features) = 1

\* C28: load_airspace_data compares its path with the recorded file name,
\* and load_from_uploaded_file records the display name.  So a load of an
\* existing file p on a slot that records another name (the display name
\* of an upload, in particular when p is the default path) misses the memo,
\* invokes the parser and leaves what a load of p on an empty slot leaves,
\* with p as file name when p parses; the cached data is returned without
\* parsing only when the recorded name equals p.
C28_DisplayNameIsMemoKey ==
    (/\ call.op = "load_airspace_data"
     /\ exists(files, CallPath)
     /\ ~IsNone(call.pre.cached_airspaces)
     /\ ~IsNone(call.pre.current_filename))
    => IF call.pre.current_filename # Some(CallPath)
       THEN /\ call.parser_calls = 1
            /\ self = load_airspace_data(EmptySlot, files, Some(CallPath)).slot
            /\ parse_and_convert(files, CallPath).ok => current_filename = Some(CallPath)
       ELSE /\ call.parser_calls = 0
            /\ self = call.pre
            /\ call.ret = <<call.pre.cached_airspaces, call.pre.cached_geojson>>

\* C28 witness: a load of the default file replaces the data of an upload
\* recorded under its display name.
C28_Witness ==
    /\ call.op = "load_airspace_data"
    /\ call.pre.current_filename = Some("custom.txt")
    /\ HasAirspaces(call.pre)
    /\ CallPath = get_default_airspace_path
    /\ call.parser_calls = 1
    /\ current_filename = Some(get_default_airspace_path)
    /\ cached_airspaces # call.pre.cached_airspaces

\* The slot is Loaded with zero airspaces.
LoadedEmpty(slot) ==
    /\ slot.cached_airspaces = Some(<<>>)
    /\ ~IsNone(slot.cached_geojson)

\* C29: export_to_kml is sure to leave the slot unchanged only when the
\* slot already holds at least one airspace, and then loads nothing.  When
\* the slot is Loaded with zero airspaces, export_to_kml calls
\* load_airspace_data for the default path, and if that yields airspaces
\* the slot holds the default file's airspaces, their GeoJSON and the
\* default path as file name, and the export returns the document of the
\* default data and does not raise.
C29_ExportReloadsEmptySlot ==
    call.op = "export_to_kml"
    => (/\ HasAirspaces(call.pre)
           => (/\ self = call.pre
               /\ call.load_calls = 0
               /\ call.parser_calls = 0)
        /\ LoadedEmpty(call.pre)
           => (/\ call.load_calls = 1
               /\ self = load_airspace_data(call.pre, files, None).slot
               /\ HasAirspaces(self)
                  => (/\ self = loaded_slot(parse_and_convert(files, get_default_airspace_path).val,
                                            get_default_airspace_path)
                      /\ IsNone(call.raised)
                      /\ call.ret = Some(convert_airspace_to_kml(
                                          parse_and_convert(files, get_default_airspace_path).val)))))

\* C29 witness: the export of a slot that holds the upload of a file without
\* airspaces renders the default file and leaves its data in the slot.
C29_Witness ==
    /\ call.op = "export_to_kml"
    /\ LoadedEmpty(call.pre)
    /\ call.pre.current_filename = Some("custom.txt")
    /\ HasAirspaces(self)
    /\ current_filename = Some(get_default_airspace_path)
    /\ IsNone(call.raised)
    /\ ~IsNone(call.ret)

\* C30: in every KML multi-geometry solid emitted for an elevated lower
\* bound, the top face, the bottom face and every wall carry the same
\* altitude mode, whatever the types of the lower and upper altitude.
C30_SolidSharesAltitudeMode ==
    call.op = "convert_airspace_to_kml"
    => \A k \in DOMAIN call.ret.features :
          call.ret.features[k].kind = "MultiGeometry"
          => \A i, j \in DOMAIN call.ret.features[k].polygons :
                call.ret.features[k].polygons[i].altitudemode
                    = call.ret.features[k].polygons[j].altitudemode

\* C25: every upload request that saves a temp file has deleted it when the
\* request ends, on every exit path: when parsing succeeds, when parsing
\* fails with a reported error, and when an exception escapes between
\* saving the file and the cleanup step.
C25_TempFileDeleted ==
    (call.op = "upload_file" /\ call.saved) => ~exists(files, call.filepath)

\* C25, the paths on which it holds: the temp file is gone after a success
\* and after a reported parse failure, when the removal itself succeeds.
C25_DeletedWhenCleanupRuns ==
    (/\ call.op = "upload_file"
     /\ call.saved
     /\ call.exit \in {"success", "parse_error"}
     /\ call.removable)
    => ~exists(files, call.filepath)

\* A pair a single load produces: airspaces and their own GeoJSON.
Consistent(pair) ==
    /\ ~IsNone(pair[1])
    /\ pair[2] = Some(convert_airspace_to_geojson(Val(pair[1])))

\* The reading request has returned the pair it read field by field.
ReturnedCached == call.reader.pc = "done" /\ call.reader.path = "cached"

\* C24: with two requests interleaved on the shared service and no lock, a
\* get_cached_data can return a pair that no single load produced, and it
\* does so only when it ran while the other request's load, upload or reset
\* was between two of its field assignments.
C24_TornOnlyWhenInterleaved ==
    (ReturnedCached /\ ~Consistent(call.reader.ret)) => call.reader.overlapped

\* C24 witness: the pair returned holds the airspaces of one file with the
\* GeoJSON of another.
C24_Witness ==
    /\ ReturnedCached
    /\ call.reader.ret[1] = Some(parse_and_convert(files, get_default_airspace_path).val)
    /\ call.reader.ret[2] = Some(convert_airspace_to_geojson(
                                    parse_and_convert(files, OtherPath).val))

\* C24, second form: airspaces are returned with an absent GeoJSON.
C24_AirspacesWithoutGeoJSON ==
    /\ ReturnedCached
    /\ ~IsNone(call.reader.ret[1])
    /\ IsNone(call.reader.ret[2])

\* C24, third form: (absent, absent) is returned after the reader's own
\* test that both fields are present has passed.
C24_AbsentAfterCheckPassed ==
    /\ ReturnedCached
    /\ call.reader.ret = <<None, None>>

====
